---- MODULE Spec2Model ----
(***************************************************************************)
(* A model of the COSCUP data scripts: the pretalx fetcher                 *)
(* (src/data/fetch_pretalx_data.py), the tag alignment script              *)
(* (src/data/align_data.py) and the embedded-data generator                *)
(* (src/generate_embedded_data.py).                                        *)
(*                                                                         *)
(* Text is modelled as a sequence of characters, each character a          *)
(* one-character string ("U+5165" stands for the code point U+5165), so    *)
(* that substring tests, lowercasing, stripping, slicing and string order  *)
(* are computed as Python computes them.  Session codes and speaker names  *)
(* are only compared and interpolated, and are plain strings.              *)
(***************************************************************************)
EXTENDS Integers, Sequences, FiniteSets, TLC

(***************************************************************************)
(* Bounds of the model.                                                    *)
(***************************************************************************)
\* The number of submissions one run of the fetcher processes.
MaxSubmissions == 3

(***************************************************************************)
(* Python's str operations on sequences of characters.                     *)
(***************************************************************************)
\* ord(c) for the printable ASCII characters (the backquote, which no text of
\* the model holds, left out).
Ord ==
    " " :> 32 @@ "!" :> 33 @@ "\"" :> 34 @@ "#" :> 35 @@ "$" :> 36 @@ "%" :> 37 @@ "&" :> 38 @@ "'" :> 39 @@
    "(" :> 40 @@ ")" :> 41 @@ "*" :> 42 @@ "+" :> 43 @@ "," :> 44 @@ "-" :> 45 @@ "." :> 46 @@ "/" :> 47 @@
    "0" :> 48 @@ "1" :> 49 @@ "2" :> 50 @@ "3" :> 51 @@ "4" :> 52 @@ "5" :> 53 @@ "6" :> 54 @@ "7" :> 55 @@
    "8" :> 56 @@ "9" :> 57 @@ ":" :> 58 @@ ";" :> 59 @@ "<" :> 60 @@ "=" :> 61 @@ ">" :> 62 @@ "?" :> 63 @@
    "@" :> 64 @@ "A" :> 65 @@ "B" :> 66 @@ "C" :> 67 @@ "D" :> 68 @@ "E" :> 69 @@ "F" :> 70 @@ "G" :> 71 @@
    "H" :> 72 @@ "I" :> 73 @@ "J" :> 74 @@ "K" :> 75 @@ "L" :> 76 @@ "M" :> 77 @@ "N" :> 78 @@ "O" :> 79 @@
    "P" :> 80 @@ "Q" :> 81 @@ "R" :> 82 @@ "S" :> 83 @@ "T" :> 84 @@ "U" :> 85 @@ "V" :> 86 @@ "W" :> 87 @@
    "X" :> 88 @@ "Y" :> 89 @@ "Z" :> 90 @@ "[" :> 91 @@ "\\" :> 92 @@ "]" :> 93 @@ "^" :> 94 @@ "_" :> 95 @@
    "a" :> 97 @@ "b" :> 98 @@ "c" :> 99 @@ "d" :> 100 @@ "e" :> 101 @@ "f" :> 102 @@ "g" :> 103 @@
    "h" :> 104 @@ "i" :> 105 @@ "j" :> 106 @@ "k" :> 107 @@ "l" :> 108 @@ "m" :> 109 @@ "n" :> 110 @@ "o" :> 111 @@
    "p" :> 112 @@ "q" :> 113 @@ "r" :> 114 @@ "s" :> 115 @@ "t" :> 116 @@ "u" :> 117 @@ "v" :> 118 @@ "w" :> 119 @@
    "x" :> 120 @@ "y" :> 121 @@ "z" :> 122 @@ "{" :> 123 @@ "|" :> 124 @@ "}" :> 125 @@ "~" :> 126

\* ord(c); the code points outside ASCII that occur are all above 127.
OrdOf(c) == IF c \in DOMAIN Ord THEN Ord[c] ELSE 128

\* The per-character map of str.lower().
LowerMap ==
    "A" :> "a" @@ "B" :> "b" @@ "C" :> "c" @@ "D" :> "d" @@ "E" :> "e" @@ "F" :> "f" @@ "G" :> "g" @@ "H" :> "h" @@ "I" :> "i" @@
    "J" :> "j" @@ "K" :> "k" @@ "L" :> "l" @@ "M" :> "m" @@ "N" :> "n" @@ "O" :> "o" @@ "P" :> "p" @@ "Q" :> "q" @@ "R" :> "r" @@
    "S" :> "s" @@ "T" :> "t" @@ "U" :> "u" @@ "V" :> "v" @@ "W" :> "w" @@ "X" :> "x" @@ "Y" :> "y" @@ "Z" :> "z"

\* s.lower()
Lower(s) == [i \in 1..Len(s) |-> IF s[i] \in DOMAIN LowerMap THEN LowerMap[s[i]] ELSE s[i]]

\* (k in t) for two strings: k occurs in t as a contiguous substring.
IsSubstring(k, t) == \E i \in 0..(Len(t) - Len(k)) : SubSeq(t, i + 1, i + Len(k)) = k

\* any(keyword in text for keyword in keywords)
AnyKeyword(keywords, text) == \E j \in 1..Len(keywords) : IsSubstring(keywords[j], text)

\* The characters str.strip() removes.
Whitespace == {" ", "\t", "\n", "\r"}

\* s.strip(): s without its leading and trailing whitespace.
Strip(s) ==
    LET keep == {i \in 1..Len(s) : s[i] \notin Whitespace}
    IN  IF keep = {} THEN <<>>
        ELSE LET lo == CHOOSE i \in keep : \A j \in keep : i <= j
                 hi == CHOOSE i \in keep : \A j \in keep : j <= i
             IN  SubSeq(s, lo, hi)

\* a < b for two strings (Python compares code point by code point, a proper
\* prefix being smaller).
StrLess(a, b) ==
    \E i \in 1..(Len(a) + 1) :
        /\ i <= Len(b)
        /\ \A j \in 1..(i - 1) : a[j] = b[j]
        /\ \/ i = Len(a) + 1
           \/ OrdOf(a[i]) < OrdOf(b[i])

\* The decimal digits of a natural number, as str(n) writes them.
RECURSIVE Digits(_)
Digits(n) == IF n < 10 THEN <<ToString(n)>> ELSE Digits(n \div 10) \o <<ToString(n % 10)>>

\* "%02d" % n, the two-digit fields of strftime("%H:%M").
TwoDigits(n) == IF n < 10 THEN <<"0">> \o Digits(n) ELSE Digits(n)

(***************************************************************************)
(* The tag vocabulary: the Go constants and their labels.  A label's emoji *)
(* is written by its code points.                                          *)
(***************************************************************************)
TagAI == "<U+1F9E0> AI"
TagLanguages == "<U+1F5E3><U+FE0F> Languages"
TagWeb3 == "<U+26D3><U+FE0F> Web3"
TagDatabase == "<U+1F5C3><U+FE0F> Database"
TagSecurity == "<U+1F512> Security"
TagHardware == "<U+1F6E0><U+FE0F> Hardware"
TagVehicle == "<U+1F697> Vehicle"
TagNetwork == "<U+1F310> Network"
TagDevOps == "<U+1F680><U+FE0F> DevOps"
TagSystem == "<U+1F4BB> System"
TagEnterprise == "<U+1F3E2> Enterprise"
TagData == "<U+1F4CA> Data"
TagGaming == "<U+1F3AE> Gaming"
TagAgriculture == "<U+1F33E> Agriculture"
TagHealthcare == "<U+2695><U+FE0F> Healthcare"
TagKeynote == "<U+1F511> Keynote"
TagPolicy == "<U+1F4DC><U+FE0F> Policy"
TagGlobal == "<U+1F30D> Global"
TagOpenData == "<U+1F450><U+FE0F> OpenData"
TagEducation == "<U+1F393> Education"
TagSocial == "<U+1F37B> Social"
TagSideProject == "<U+1F4A1> SideProject"

\* The constants of the const block, in the order it declares them.
TagConstants ==
    <<"TagAI", "TagLanguages", "TagWeb3", "TagDatabase", "TagSecurity",
      "TagHardware", "TagVehicle", "TagNetwork", "TagDevOps", "TagSystem",
      "TagEnterprise", "TagData", "TagGaming", "TagAgriculture", "TagHealthcare",
      "TagKeynote", "TagPolicy", "TagGlobal", "TagOpenData", "TagEducation",
      "TagSocial", "TagSideProject">>

\* The labels, in the same order.
TagLabels ==
    <<TagAI, TagLanguages, TagWeb3, TagDatabase, TagSecurity,
      TagHardware, TagVehicle, TagNetwork, TagDevOps, TagSystem,
      TagEnterprise, TagData, TagGaming, TagAgriculture, TagHealthcare,
      TagKeynote, TagPolicy, TagGlobal, TagOpenData, TagEducation,
      TagSocial, TagSideProject>>

(***************************************************************************)
(* The keyword rules of the two classifiers, in the order the functions    *)
(* declare them.                                                           *)
(***************************************************************************)
classify_rules ==
  << [tag |-> TagAI, keywords |-> <<
       <<"a","i">>,  \* 'ai'
       <<"m","a","c","h","i","n","e"," ","l","e","a","r","n","i","n","g">>,  \* 'machine learning'
       <<"n","e","u","r","a","l">>,  \* 'neural'
       <<"d","e","e","p"," ","l","e","a","r","n","i","n","g">>,  \* 'deep learning'
       <<"l","l","m">>,  \* 'llm'
       <<"c","h","a","t","g","p","t">>   \* 'chatgpt'
     >>],
     [tag |-> TagSecurity, keywords |-> <<
       <<"s","e","c","u","r","i","t","y">>,  \* 'security'
       <<"s","e","c","u","r","e">>,  \* 'secure'
       <<"a","t","t","a","c","k">>,  \* 'attack'
       <<"v","u","l","n","e","r","a","b","i","l","i","t","y">>,  \* 'vulnerability'
       <<"e","n","c","r","y","p","t","i","o","n">>,  \* 'encryption'
       <<"p","r","i","v","a","c","y">>   \* 'privacy'
     >>],
     [tag |-> TagLanguages, keywords |-> <<
       <<"p","y","t","h","o","n">>,  \* 'python'
       <<"g","o">>,  \* 'go'
       <<"r","u","s","t">>,  \* 'rust'
       <<"j","a","v","a","s","c","r","i","p","t">>,  \* 'javascript'
       <<"k","o","t","l","i","n">>,  \* 'kotlin'
       <<"j","a","v","a">>,  \* 'java'
       <<"r","u","b","y">>   \* 'ruby'
     >>],
     [tag |-> TagDatabase, keywords |-> <<
       <<"d","a","t","a","b","a","s","e">>,  \* 'database'
       <<"s","q","l">>,  \* 'sql'
       <<"p","o","s","t","g","r","e","s","q","l">>,  \* 'postgresql'
       <<"m","y","s","q","l">>,  \* 'mysql'
       <<"r","e","d","i","s">>   \* 'redis'
     >>],
     [tag |-> TagDevOps, keywords |-> <<
       <<"d","e","v","o","p","s">>,  \* 'devops'
       <<"k","u","b","e","r","n","e","t","e","s">>,  \* 'kubernetes'
       <<"d","o","c","k","e","r">>,  \* 'docker'
       <<"c","l","o","u","d">>,  \* 'cloud'
       <<"d","e","p","l","o","y","m","e","n","t">>   \* 'deployment'
     >>],
     [tag |-> TagHardware, keywords |-> <<
       <<"h","a","r","d","w","a","r","e">>,  \* 'hardware'
       <<"r","a","s","p","b","e","r","r","y"," ","p","i">>,  \* 'raspberry pi'
       <<"i","o","t">>,  \* 'iot'
       <<"e","m","b","e","d","d","e","d">>   \* 'embedded'
     >>],
     [tag |-> TagWeb3, keywords |-> <<
       <<"b","l","o","c","k","c","h","a","i","n">>,  \* 'blockchain'
       <<"w","e","b","3">>,  \* 'web3'
       <<"c","r","y","p","t","o","c","u","r","r","e","n","c","y">>,  \* 'cryptocurrency'
       <<"n","f","t">>   \* 'nft'
     >>],
     [tag |-> TagNetwork, keywords |-> <<
       <<"n","e","t","w","o","r","k">>,  \* 'network'
       <<"t","c","p">>,  \* 'tcp'
       <<"h","t","t","p">>,  \* 'http'
       <<"a","p","i">>   \* 'api'
     >>],
     [tag |-> TagSystem, keywords |-> <<
       <<"s","y","s","t","e","m">>,  \* 'system'
       <<"l","i","n","u","x">>,  \* 'linux'
       <<"k","e","r","n","e","l">>,  \* 'kernel'
       <<"o","p","e","r","a","t","i","n","g">>   \* 'operating'
     >>],
     [tag |-> TagEducation, keywords |-> <<
       <<"e","d","u","c","a","t","i","o","n">>,  \* 'education'
       <<"t","e","a","c","h","i","n","g">>,  \* 'teaching'
       <<"l","e","a","r","n","i","n","g">>,  \* 'learning'
       <<"s","t","u","d","e","n","t">>   \* 'student'
     >>],
     [tag |-> TagPolicy, keywords |-> <<
       <<"p","o","l","i","c","y">>,  \* 'policy'
       <<"l","i","c","e","n","s","e">>,  \* 'license'
       <<"l","e","g","a","l">>,  \* 'legal'
       <<"g","o","v","e","r","n","a","n","c","e">>   \* 'governance'
     >>],
     [tag |-> TagSocial, keywords |-> <<
       <<"s","o","c","i","a","l">>,  \* 'social'
       <<"c","o","m","m","u","n","i","t","y">>,  \* 'community'
       <<"n","e","t","w","o","r","k","i","n","g">>,  \* 'networking'
       <<"c","h","a","t">>   \* 'chat'
     >>] >>

fallback_rules ==
  << [tag |-> TagSecurity, keywords |-> <<
       <<"s","e","c","u","r","i","t","y">>,  \* 'security'
       <<"s","e","c","u","r","e">>,  \* 'secure'
       <<"a","t","t","a","c","k">>,  \* 'attack'
       <<"v","u","l","n","e","r","a","b","i","l","i","t","y">>,  \* 'vulnerability'
       <<"e","n","c","r","y","p","t","i","o","n">>   \* 'encryption'
     >>],
     [tag |-> TagSystem, keywords |-> <<
       <<"k","e","r","n","e","l">>,  \* 'kernel'
       <<"l","i","n","u","x">>,  \* 'linux'
       <<"s","y","s","t","e","m">>,  \* 'system'
       <<"o","s">>,  \* 'os'
       <<"o","p","e","r","a","t","i","n","g">>   \* 'operating'
     >>],
     [tag |-> TagAI, keywords |-> <<
       <<"a","i">>,  \* 'ai'
       <<"m","a","c","h","i","n","e"," ","l","e","a","r","n","i","n","g">>,  \* 'machine learning'
       <<"n","e","u","r","a","l">>,  \* 'neural'
       <<"d","e","e","p"," ","l","e","a","r","n","i","n","g">>,  \* 'deep learning'
       <<"l","l","m">>   \* 'llm'
     >>],
     [tag |-> TagLanguages, keywords |-> <<
       <<"p","y","t","h","o","n">>,  \* 'python'
       <<"g","o">>,  \* 'go'
       <<"r","u","s","t">>,  \* 'rust'
       <<"j","a","v","a","s","c","r","i","p","t">>,  \* 'javascript'
       <<"k","o","t","l","i","n">>,  \* 'kotlin'
       <<"j","a","v","a">>,  \* 'java'
       <<"r","u","b","y">>   \* 'ruby'
     >>],
     [tag |-> TagDatabase, keywords |-> <<
       <<"d","a","t","a","b","a","s","e">>,  \* 'database'
       <<"s","q","l">>,  \* 'sql'
       <<"p","o","s","t","g","r","e","s","q","l">>,  \* 'postgresql'
       <<"m","y","s","q","l">>   \* 'mysql'
     >>],
     [tag |-> TagDevOps, keywords |-> <<
       <<"d","e","v","o","p","s">>,  \* 'devops'
       <<"k","u","b","e","r","n","e","t","e","s">>,  \* 'kubernetes'
       <<"d","o","c","k","e","r">>,  \* 'docker'
       <<"c","l","o","u","d">>   \* 'cloud'
     >>],
     [tag |-> TagHardware, keywords |-> <<
       <<"h","a","r","d","w","a","r","e">>,  \* 'hardware'
       <<"r","a","s","p","b","e","r","r","y"," ","p","i">>,  \* 'raspberry pi'
       <<"i","o","t">>,  \* 'iot'
       <<"e","m","b","e","d","d","e","d">>   \* 'embedded'
     >>],
     [tag |-> TagWeb3, keywords |-> <<
       <<"b","l","o","c","k","c","h","a","i","n">>,  \* 'blockchain'
       <<"w","e","b","3">>,  \* 'web3'
       <<"c","r","y","p","t","o","c","u","r","r","e","n","c","y">>   \* 'cryptocurrency'
     >>],
     [tag |-> TagNetwork, keywords |-> <<
       <<"n","e","t","w","o","r","k">>,  \* 'network'
       <<"t","c","p">>,  \* 'tcp'
       <<"h","t","t","p">>,  \* 'http'
       <<"a","p","i">>   \* 'api'
     >>],
     [tag |-> TagPolicy, keywords |-> <<
       <<"p","o","l","i","c","y">>,  \* 'policy'
       <<"l","i","c","e","n","s","e">>,  \* 'license'
       <<"l","e","g","a","l">>,  \* 'legal'
       <<"g","o","v","e","r","n","a","n","c","e">>   \* 'governance'
     >>],
     [tag |-> TagSocial, keywords |-> <<
       <<"s","o","c","i","a","l">>,  \* 'social'
       <<"c","o","m","m","u","n","i","t","y">>,  \* 'community'
       <<"n","e","t","w","o","r","k","i","n","g">>,  \* 'networking'
       <<"c","h","a","t">>   \* 'chat'
     >>] >>

(***************************************************************************)
(* The classifiers.  An optional value (None or a value) is a sequence of  *)
(* length at most one.                                                     *)
(***************************************************************************)
\* A variant of FiringTags: the chain is if/elif, and stops at the first rule
\* that fires.
FiringTags_FirstOnly(rules, text) ==
    LET fired == SelectSeq(rules, LAMBDA r : AnyKeyword(r.keywords, text))
    IN  IF fired = <<>> THEN <<>> ELSE <<fired[1].tag>>

\* The tags of the rules that fire on text, one per firing rule, in the order
\* of the rules: the chain of "if any(keyword in text ...): tags.append(tag)".
FiringTags(rules, text) ==
    LET fired == SelectSeq(rules, LAMBDA r : AnyKeyword(r.keywords, text))
    IN  [i \in 1..Len(fired) |-> fired[i].tag]

\* A variant of DefaultTags: no tag when neither 'keynote' nor 'opening' occurs.
DefaultTags_KeynoteOnly(text) ==
    IF \/ IsSubstring(<<"k","e","y","n","o","t","e">>, text)
       \/ IsSubstring(<<"o","p","e","n","i","n","g">>, text)
    THEN <<TagKeynote>>
    ELSE <<>>

\* The default of both classifiers when no rule fired.
DefaultTags(text) ==
    IF \/ IsSubstring(<<"k","e","y","n","o","t","e">>, text)
       \/ IsSubstring(<<"o","p","e","n","i","n","g">>, text)
    THEN <<TagKeynote>>
    ELSE <<TagSystem>>

\* f"{track} {title} {abstract}".lower()
ClassifierText(track, title, abstract) ==
    Lower(track \o <<" ">> \o title \o <<" ">> \o abstract)

\* A variant of classify_session_tags: Keynote is added whenever 'keynote' or
\* 'opening' occurs, not only when no rule fired.
classify_session_tags_KeynoteAlways(track_name, title, abstract) ==
    LET text == ClassifierText(track_name, title, abstract)
        tags == FiringTags(classify_rules, text)
    IN  IF \/ IsSubstring(<<"k","e","y","n","o","t","e">>, text)
           \/ IsSubstring(<<"o","p","e","n","i","n","g">>, text)
        THEN Append(tags, TagKeynote)
        ELSE IF tags = <<>> THEN <<TagSystem>> ELSE tags

\* PretalxDataFetcher.classify_session_tags
classify_session_tags(track_name, title, abstract) ==
    LET text == ClassifierText(track_name, title, abstract)
        tags == FiringTags(classify_rules, text)
    IN  IF tags = <<>> THEN DefaultTags(text) ELSE tags

\* A variant of generate_fallback_tags: the tags stored in the session are
\* kept when it has some.
generate_fallback_tags_StoredFirst(session) ==
    IF session.tags # <<>> THEN session.tags
    ELSE LET text == ClassifierText(session.track, session.title, session.abstract)
             tags == FiringTags(fallback_rules, text)
         IN  IF tags = <<>> THEN DefaultTags(text) ELSE tags

\* align_data.generate_fallback_tags
generate_fallback_tags(session) ==
    LET text == ClassifierText(session.track, session.title, session.abstract)
        tags == FiringTags(fallback_rules, text)
    IN  IF tags = <<>> THEN DefaultTags(text) ELSE tags

(***************************************************************************)
(* generate_embedded_data.py.                                              *)
(***************************************************************************)
\* The cap of generate_tags: tags[:2].
TagCap == 2

\* The keyword rules of generate_tags, in the order the function declares them:
\* per rule the keywords looked for in the track, in the title and in the
\* abstract.
generate_rules ==
  << [tag |-> "TagAI",
      \* track: 'ai', 'machine learning'
      track |-> <<<<"a","i">>, <<"m","a","c","h","i","n","e"," ","l","e","a","r","n","i","n","g">>>>,
      \* title: 'ai', 'ml', '機器學習', '人工智慧', 'llm', 'agent'
      title |-> <<<<"a","i">>, <<"m","l">>, <<"U+6A5F","U+5668","U+5B78","U+7FD2">>, <<"U+4EBA","U+5DE5","U+667A","U+6167">>, <<"l","l","m">>, <<"a","g","e","n","t">>>>,
      \* abstract: 'ai', 'machine learning', 'neural', 'model'
      abstract |-> <<<<"a","i">>, <<"m","a","c","h","i","n","e"," ","l","e","a","r","n","i","n","g">>, <<"n","e","u","r","a","l">>, <<"m","o","d","e","l">>>>],
     [tag |-> "TagLanguages",
      \* track: 'golang', 'python', 'ruby', 'kotlin', 'swift', 'jvm', 'javascript'
      track |-> <<<<"g","o","l","a","n","g">>, <<"p","y","t","h","o","n">>, <<"r","u","b","y">>, <<"k","o","t","l","i","n">>, <<"s","w","i","f","t">>, <<"j","v","m">>, <<"j","a","v","a","s","c","r","i","p","t">>>>,
      \* title: 'go', 'python', 'ruby', 'kotlin', 'swift', 'java', 'js', 'programming'
      title |-> <<<<"g","o">>, <<"p","y","t","h","o","n">>, <<"r","u","b","y">>, <<"k","o","t","l","i","n">>, <<"s","w","i","f","t">>, <<"j","a","v","a">>, <<"j","s">>, <<"p","r","o","g","r","a","m","m","i","n","g">>>>,
      \* abstract: (none)
      abstract |-> <<>>],
     [tag |-> "TagSecurity",
      \* track: 'security', 'tor', 'hitcon'
      track |-> <<<<"s","e","c","u","r","i","t","y">>, <<"t","o","r">>, <<"h","i","t","c","o","n">>>>,
      \* title: 'security', 'hack', '隱私', '安全', 'attack', 'privacy'
      title |-> <<<<"s","e","c","u","r","i","t","y">>, <<"h","a","c","k">>, <<"U+96B1","U+79C1">>, <<"U+5B89","U+5168">>, <<"a","t","t","a","c","k">>, <<"p","r","i","v","a","c","y">>>>,
      \* abstract: (none)
      abstract |-> <<>>],
     [tag |-> "TagWeb3",
      \* track: 'blockchain', 'web3'
      track |-> <<<<"b","l","o","c","k","c","h","a","i","n">>, <<"w","e","b","3">>>>,
      \* title: 'blockchain', 'web3', 'crypto', 'defi', '區塊鏈'
      title |-> <<<<"b","l","o","c","k","c","h","a","i","n">>, <<"w","e","b","3">>, <<"c","r","y","p","t","o">>, <<"d","e","f","i">>, <<"U+5340","U+584A","U+93C8">>>>,
      \* abstract: (none)
      abstract |-> <<>>],
     [tag |-> "TagDatabase",
      \* track: 'postgresql', 'database'
      track |-> <<<<"p","o","s","t","g","r","e","s","q","l">>, <<"d","a","t","a","b","a","s","e">>>>,
      \* title: 'database', '資料庫', 'sql', 'postgresql'
      title |-> <<<<"d","a","t","a","b","a","s","e">>, <<"U+8CC7","U+6599","U+5EAB">>, <<"s","q","l">>, <<"p","o","s","t","g","r","e","s","q","l">>>>,
      \* abstract: (none)
      abstract |-> <<>>],
     [tag |-> "TagHardware",
      \* track: 'hardware', 'firmware', 'system'
      track |-> <<<<"h","a","r","d","w","a","r","e">>, <<"f","i","r","m","w","a","r","e">>, <<"s","y","s","t","e","m">>>>,
      \* title: 'hardware', 'firmware', 'risc-v', 'fpga', 'embedded'
      title |-> <<<<"h","a","r","d","w","a","r","e">>, <<"f","i","r","m","w","a","r","e">>, <<"r","i","s","c","-","v">>, <<"f","p","g","a">>, <<"e","m","b","e","d","d","e","d">>>>,
      \* abstract: (none)
      abstract |-> <<>>],
     [tag |-> "TagVehicle",
      \* track: 'vehicle', 'automotive'
      track |-> <<<<"v","e","h","i","c","l","e">>, <<"a","u","t","o","m","o","t","i","v","e">>>>,
      \* title: 'vehicle', 'automotive', 'sdv'
      title |-> <<<<"v","e","h","i","c","l","e">>, <<"a","u","t","o","m","o","t","i","v","e">>, <<"s","d","v">>>>,
      \* abstract: (none)
      abstract |-> <<>>],
     [tag |-> "TagNetwork",
      \* track: 'network', 'networking'
      track |-> <<<<"n","e","t","w","o","r","k">>, <<"n","e","t","w","o","r","k","i","n","g">>>>,
      \* title: 'network', '網路', 'tcp', 'http', 'api'
      title |-> <<<<"n","e","t","w","o","r","k">>, <<"U+7DB2","U+8DEF">>, <<"t","c","p">>, <<"h","t","t","p">>, <<"a","p","i">>>>,
      \* abstract: (none)
      abstract |-> <<>>],
     [tag |-> "TagDevOps",
      \* track: 'devops', 'cloud', 'monitoring'
      track |-> <<<<"d","e","v","o","p","s">>, <<"c","l","o","u","d">>, <<"m","o","n","i","t","o","r","i","n","g">>>>,
      \* title: 'devops', 'docker', 'kubernetes', 'ci/cd', 'monitoring'
      title |-> <<<<"d","e","v","o","p","s">>, <<"d","o","c","k","e","r">>, <<"k","u","b","e","r","n","e","t","e","s">>, <<"c","i","/","c","d">>, <<"m","o","n","i","t","o","r","i","n","g">>>>,
      \* abstract: (none)
      abstract |-> <<>>],
     [tag |-> "TagSystem",
      \* track: 'system software'
      track |-> <<<<"s","y","s","t","e","m"," ","s","o","f","t","w","a","r","e">>>>,
      \* title: 'kernel', 'linux', 'system', '系統'
      title |-> <<<<"k","e","r","n","e","l">>, <<"l","i","n","u","x">>, <<"s","y","s","t","e","m">>, <<"U+7CFB","U+7D71">>>>,
      \* abstract: (none)
      abstract |-> <<>>],
     [tag |-> "TagEnterprise",
      \* track: 'enterprise', 'odoo', 'erp'
      track |-> <<<<"e","n","t","e","r","p","r","i","s","e">>, <<"o","d","o","o">>, <<"e","r","p">>>>,
      \* title: 'enterprise', 'erp', 'business'
      title |-> <<<<"e","n","t","e","r","p","r","i","s","e">>, <<"e","r","p">>, <<"b","u","s","i","n","e","s","s">>>>,
      \* abstract: (none)
      abstract |-> <<>>],
     [tag |-> "TagData",
      \* track: (none)
      track |-> <<>>,
      \* title: 'data', '資料', 'analytics', 'visualization', '分析'
      title |-> <<<<"d","a","t","a">>, <<"U+8CC7","U+6599">>, <<"a","n","a","l","y","t","i","c","s">>, <<"v","i","s","u","a","l","i","z","a","t","i","o","n">>, <<"U+5206","U+6790">>>>,
      \* abstract: (none)
      abstract |-> <<>>],
     [tag |-> "TagPolicy",
      \* track: 'policy', 'licensing'
      track |-> <<<<"p","o","l","i","c","y">>, <<"l","i","c","e","n","s","i","n","g">>>>,
      \* title: 'policy', 'license', '政策', '授權', '開源', 'legal'
      title |-> <<<<"p","o","l","i","c","y">>, <<"l","i","c","e","n","s","e">>, <<"U+653F","U+7B56">>, <<"U+6388","U+6B0A">>, <<"U+958B","U+6E90">>, <<"l","e","g","a","l">>>>,
      \* abstract: (none)
      abstract |-> <<>>],
     [tag |-> "TagGlobal",
      \* track: 'japan', 'global', 'world tour', 'international'
      track |-> <<<<"j","a","p","a","n">>, <<"g","l","o","b","a","l">>, <<"w","o","r","l","d"," ","t","o","u","r">>, <<"i","n","t","e","r","n","a","t","i","o","n","a","l">>>>,
      \* title: 'fosdem', 'japan', '日本', 'international', 'global'
      title |-> <<<<"f","o","s","d","e","m">>, <<"j","a","p","a","n">>, <<"U+65E5","U+672C">>, <<"i","n","t","e","r","n","a","t","i","o","n","a","l">>, <<"g","l","o","b","a","l">>>>,
      \* abstract: (none)
      abstract |-> <<>>],
     [tag |-> "TagOpenData",
      \* track: 'openstreet', 'wikidata', 'wikipedia'
      track |-> <<<<"o","p","e","n","s","t","r","e","e","t">>, <<"w","i","k","i","d","a","t","a">>, <<"w","i","k","i","p","e","d","i","a">>>>,
      \* title: 'openstreet', 'wikidata', 'wikipedia', '開放資料'
      title |-> <<<<"o","p","e","n","s","t","r","e","e","t">>, <<"w","i","k","i","d","a","t","a">>, <<"w","i","k","i","p","e","d","i","a">>, <<"U+958B","U+653E","U+8CC7","U+6599">>>>,
      \* abstract: (none)
      abstract |-> <<>>],
     [tag |-> "TagEducation",
      \* track: (none)
      track |-> <<>>,
      \* title: '教學', '入門', 'beginner', 'tutorial', 'education', '學習'
      title |-> <<<<"U+6559","U+5B78">>, <<"U+5165","U+9580">>, <<"b","e","g","i","n","n","e","r">>, <<"t","u","t","o","r","i","a","l">>, <<"e","d","u","c","a","t","i","o","n">>, <<"U+5B78","U+7FD2">>>>,
      \* abstract: (none)
      abstract |-> <<>>],
     [tag |-> "TagSocial",
      \* track: 'unconference'
      track |-> <<<<"u","n","c","o","n","f","e","r","e","n","c","e">>>>,
      \* title: 'bof', 'hacking corner', 'social', '交流'
      title |-> <<<<"b","o","f">>, <<"h","a","c","k","i","n","g"," ","c","o","r","n","e","r">>, <<"s","o","c","i","a","l">>, <<"U+4EA4","U+6D41">>>>,
      \* abstract: (none)
      abstract |-> <<>>],
     [tag |-> "TagSideProject",
      \* track: 'side project'
      track |-> <<<<"s","i","d","e"," ","p","r","o","j","e","c","t">>>>,
      \* title: 'side project', 'indie', 'startup'
      title |-> <<<<"s","i","d","e"," ","p","r","o","j","e","c","t">>, <<"i","n","d","i","e">>, <<"s","t","a","r","t","u","p">>>>,
      \* abstract: (none)
      abstract |-> <<>>],
     [tag |-> "TagKeynote",
      \* track: 'main session'
      track |-> <<<<"m","a","i","n"," ","s","e","s","s","i","o","n">>>>,
      \* title: 'welcome', 'keynote', 'closing'
      title |-> <<<<"w","e","l","c","o","m","e">>, <<"k","e","y","n","o","t","e">>, <<"c","l","o","s","i","n","g">>>>,
      \* abstract: (none)
      abstract |-> <<>>] >>

\* A variant of generate_tags: the result is not cut to its first two tags.
generate_tags_Uncapped(session) ==
    LET track == Lower(session.track)
        title == Lower(session.title)
        abstract == Lower(session.abstract)
        fired == SelectSeq(generate_rules,
                           LAMBDA r : \/ AnyKeyword(r.track, track)
                                      \/ AnyKeyword(r.title, title)
                                      \/ AnyKeyword(r.abstract, abstract))
        tags == [i \in 1..Len(fired) |-> fired[i].tag]
    IN  IF tags = <<>> THEN <<"TagSystem">> ELSE tags

\* generate_embedded_data.generate_tags: the constants of the firing rules, the
\* default TagSystem when none fires, and of these the first two.
generate_tags(session) ==
    LET track == Lower(session.track)
        title == Lower(session.title)
        abstract == Lower(session.abstract)
        fired == SelectSeq(generate_rules,
                           LAMBDA r : \/ AnyKeyword(r.track, track)
                                      \/ AnyKeyword(r.title, title)
                                      \/ AnyKeyword(r.abstract, abstract))
        tags == [i \in 1..Len(fired) |-> fired[i].tag]
        with_default == IF tags = <<>> THEN <<"TagSystem">> ELSE tags
    IN  SubSeq(with_default, 1, IF Len(with_default) < TagCap THEN Len(with_default) ELSE TagCap)

(***************************************************************************)
(* Slot times.  A timestamp text "2025-08-DDTHH:MM:00<tz>" is the record   *)
(* of its fields [day, hour, minute, tz], tz one of the suffixes "Z",      *)
(* "+00:00", "+08:00", "+09:00".                                           *)
(***************************************************************************)
\* The UTC offset, in minutes, that datetime.fromisoformat reads from a suffix.
UtcOffset == "+00:00" :> 0 @@ "+08:00" :> 480 @@ "+09:00" :> 540

\* text.replace('Z', '+00:00')
ReplaceZ(ts) == IF ts.tz = "Z" THEN [ts EXCEPT !.tz = "+00:00"] ELSE ts

\* datetime.fromisoformat: an aware datetime, the wall-clock fields as written
\* and the offset of the suffix.
fromisoformat(ts) ==
    [day |-> ts.day, hour |-> ts.hour, minute |-> ts.minute, utcoffset |-> UtcOffset[ts.tz]]

\* dt.replace(tzinfo=None): the same wall-clock fields, the offset dropped.
ReplaceTzinfoNone(dt) == [day |-> dt.day, hour |-> dt.hour, minute |-> dt.minute]

\* dt.strftime("%H:%M")
StrftimeHM(dt) == TwoDigits(dt.hour) \o <<":">> \o TwoDigits(dt.minute)

\* PretalxDataFetcher.parse_slot_time
parse_slot_time(slot) ==
    LET start_dt == fromisoformat(ReplaceZ(slot.start[1]))
        end_dt == fromisoformat(ReplaceZ(slot.end[1]))
        taiwan_start == ReplaceTzinfoNone(start_dt)
        taiwan_end == ReplaceTzinfoNone(end_dt)
    IN  [start |-> StrftimeHM(taiwan_start),
         end |-> StrftimeHM(taiwan_end),
         day |-> <<"A","u","g",".">> \o Digits(taiwan_start.day)]

(***************************************************************************)
(* process_session.  A submission is a record [code, title, abstract,      *)
(* speakers, track, slots, answers]; a missing, None or empty field is the *)
(* empty sequence, and a missing, None or zero id is 0: the code tests     *)
(* them all with "not" or "or" and cannot tell them apart.                 *)
(***************************************************************************)
\* PretalxDataFetcher.get_answer_value: the stripped answer of the first
\* answer to the question, or None.
get_answer_value(answers, question_id) ==
    LET hits == {i \in 1..Len(answers) : answers[i].question = question_id}
    IN  IF hits = {} THEN <<>>
        ELSE LET first == CHOOSE i \in hits : \A j \in hits : i <= j
             IN  <<Strip(answers[first].answer)>>

\* (value or default) for an optional string.
OrDefault(value, default) ==
    IF value = <<>> THEN default
    ELSE IF value[1] = <<>> THEN default
    ELSE value[1]

\* A variant of GetOrKey: dict.get(key, ''), a key the map lacks gives the
\* empty string.
GetOrKey_Empty(map, key) == IF key \in DOMAIN map THEN map[key] ELSE <<>>

\* dict.get(key, key)
GetOrKey(map, key) == IF key \in DOMAIN map THEN map[key] ELSE key

difficulty_map ==
    <<"B","e","g","i","n","n","e","r">> :> <<"U+5165","U+9580">> @@
    <<"I","n","t","e","r","m","e","d","i","a","t","e">> :> <<"U+4E2D","U+968E">> @@
    <<"A","d","v","a","n","c","e","d">> :> <<"U+9032","U+968E">>

language_map ==
    <<"C","h","i","n","e","s","e">> :> <<"U+6F22","U+8A9E">> @@
    <<"E","n","g","l","i","s","h">> :> <<"U+82F1","U+8A9E">> @@
    <<"J","a","p","a","n","e","s","e">> :> <<"U+65E5","U+672C","U+8A9E">>

\* The question ids of the submission form.
DifficultyQuestion == 59
LanguageQuestion == 57

\* The number of characters of the abstract a session keeps.
AbstractLimit == 200

\* rooms.get(room_id, {}).get('name', {}): the localized names, each empty
\* when missing.
NameInfo(table, id) == IF id \in DOMAIN table THEN table[id] ELSE [en |-> <<>>, zhtw |-> <<>>]

\* A variant of RoomName: no placeholder after the two names.
RoomName_NoPlaceholder(rooms, room_id) ==
    LET name == NameInfo(rooms, room_id)
    IN  IF name.en # <<>> THEN name.en ELSE name.zhtw

\* The room name: 'en', else 'zh-tw', else f"Room{room_id}".
RoomName(rooms, room_id) ==
    LET name == NameInfo(rooms, room_id)
    IN  IF name.en # <<>> THEN name.en
        ELSE IF name.zhtw # <<>> THEN name.zhtw
        ELSE <<"R","o","o","m">> \o Digits(room_id)

\* The track name: 'zh-tw', else 'en', else "General"; a submission without a
\* track id looks nothing up.
TrackName(tracks, track_id) ==
    LET name == IF track_id # 0 THEN NameInfo(tracks, track_id) ELSE [en |-> <<>>, zhtw |-> <<>>]
    IN  IF name.zhtw # <<>> THEN name.zhtw
        ELSE IF name.en # <<>> THEN name.en
        ELSE <<"G","e","n","e","r","a","l">>

\* A variant of SpeakerNames: a code that is not in the table gives no name.
SpeakerNames_KnownOnly(speakers, codes) ==
    LET known == SelectSeq(codes, LAMBDA c : c \in DOMAIN speakers)
    IN  [i \in 1..Len(known) |->
            IF speakers[known[i]] # <<>> THEN speakers[known[i]][1] ELSE known[i]]

\* speakers.get(speaker_code, {}).get('name', speaker_code), for each code.
SpeakerNames(speakers, codes) ==
    [i \in 1..Len(codes) |->
        IF codes[i] \in DOMAIN speakers
        THEN IF speakers[codes[i]] # <<>> THEN speakers[codes[i]][1] ELSE codes[i]
        ELSE codes[i]]

\* A variant of TruncateAbstract: an abstract of exactly 200 characters is cut
\* as well.
TruncateAbstract_FromLimit(abstract) ==
    IF Len(abstract) >= AbstractLimit
    THEN SubSeq(abstract, 1, AbstractLimit) \o <<".",".",".">>
    ELSE abstract

\* abstract[:200] + '...' if len(abstract) > 200 else abstract
TruncateAbstract(abstract) ==
    IF Len(abstract) > AbstractLimit
    THEN SubSeq(abstract, 1, AbstractLimit) \o <<".",".",".">>
    ELSE abstract

\* A variant of SkipsSubmission: the room of the slot is not tested.
SkipsSubmission_NoRoomTest(submission) ==
    \/ submission.slots = <<>>
    \/ submission.slots[1].start = <<>>
    \/ submission.slots[1].end = <<>>

\* The two early returns of process_session.
SkipsSubmission(submission) ==
    \/ submission.slots = <<>>
    \/ submission.slots[1].start = <<>>
    \/ submission.slots[1].end = <<>>
    \/ submission.slots[1].room = 0

\* PretalxDataFetcher.process_session: None, or the session.
process_session(submission, speakers, rooms, tracks) ==
    IF SkipsSubmission(submission) THEN <<>>
    ELSE LET slot == submission.slots[1]
             time == parse_slot_time(slot)
             track_name == TrackName(tracks, submission.track)
             difficulty == OrDefault(get_answer_value(submission.answers, DifficultyQuestion),
                                     <<"U+5165","U+9580">>)
             language == OrDefault(get_answer_value(submission.answers, LanguageQuestion),
                                   <<"U+6F22","U+8A9E">>)
         IN  <<[code |-> submission.code,
                title |-> submission.title,
                speakers |-> SpeakerNames(speakers, submission.speakers),
                start |-> time.start,
                end |-> time.end,
                track |-> track_name,
                abstract |-> TruncateAbstract(submission.abstract),
                language |-> GetOrKey(language_map, language),
                difficulty |-> GetOrKey(difficulty_map, difficulty),
                room |-> RoomName(rooms, slot.room),
                day |-> time.day,
                tags |-> classify_session_tags(track_name, submission.title, submission.abstract),
                url |-> "https://coscup.org/2025/sessions/" \o submission.code]>>

(***************************************************************************)
(* The three tag maps of the writers and of the loader, as the source      *)
(* writes them.                                                             *)
(***************************************************************************)
\* tag_map of generate_go_data: label -> constant.
fetch_tag_map ==
    "<U+1F9E0> AI" :> "TagAI" @@
    "<U+1F5E3><U+FE0F> Languages" :> "TagLanguages" @@
    "<U+26D3><U+FE0F> Web3" :> "TagWeb3" @@
    "<U+1F5C3><U+FE0F> Database" :> "TagDatabase" @@
    "<U+1F512> Security" :> "TagSecurity" @@
    "<U+1F6E0><U+FE0F> Hardware" :> "TagHardware" @@
    "<U+1F697> Vehicle" :> "TagVehicle" @@
    "<U+1F310> Network" :> "TagNetwork" @@
    "<U+1F680><U+FE0F> DevOps" :> "TagDevOps" @@
    "<U+1F4BB> System" :> "TagSystem" @@
    "<U+1F3E2> Enterprise" :> "TagEnterprise" @@
    "<U+1F4CA> Data" :> "TagData" @@
    "<U+1F3AE> Gaming" :> "TagGaming" @@
    "<U+1F33E> Agriculture" :> "TagAgriculture" @@
    "<U+2695><U+FE0F> Healthcare" :> "TagHealthcare" @@
    "<U+1F511> Keynote" :> "TagKeynote" @@
    "<U+1F4DC><U+FE0F> Policy" :> "TagPolicy" @@
    "<U+1F30D> Global" :> "TagGlobal" @@
    "<U+1F450><U+FE0F> OpenData" :> "TagOpenData" @@
    "<U+1F393> Education" :> "TagEducation" @@
    "<U+1F37B> Social" :> "TagSocial" @@
    "<U+1F4A1> SideProject" :> "TagSideProject"

\* TAG_MAPPING of generate_embedded_data: key -> label.
TAG_MAPPING ==
    "AI" :> "<U+1F9E0> AI" @@
    "Languages" :> "<U+1F5E3><U+FE0F> Languages" @@
    "Web3" :> "<U+26D3><U+FE0F> Web3" @@
    "Database" :> "<U+1F5C3><U+FE0F> Database" @@
    "Security" :> "<U+1F512> Security" @@
    "Hardware" :> "<U+1F6E0><U+FE0F> Hardware" @@
    "Vehicle" :> "<U+1F697> Vehicle" @@
    "Network" :> "<U+1F310> Network" @@
    "DevOps" :> "<U+1F680><U+FE0F> DevOps" @@
    "System" :> "<U+1F4BB> System" @@
    "Enterprise" :> "<U+1F3E2> Enterprise" @@
    "Data" :> "<U+1F4CA> Data" @@
    "Gaming" :> "<U+1F3AE> Gaming" @@
    "Agriculture" :> "<U+1F33E> Agriculture" @@
    "Healthcare" :> "<U+2695><U+FE0F> Healthcare" @@
    "Keynote" :> "<U+1F511> Keynote" @@
    "Policy" :> "<U+1F4DC><U+FE0F> Policy" @@
    "Global" :> "<U+1F30D> Global" @@
    "OpenData" :> "<U+1F450><U+FE0F> OpenData" @@
    "Education" :> "<U+1F393> Education" @@
    "Social" :> "<U+1F37B> Social" @@
    "SideProject" :> "<U+1F4A1> SideProject"

\* The const block generate_go_file emits: constant -> label.
generate_const_block ==
    "TagAI" :> "<U+1F9E0> AI" @@
    "TagLanguages" :> "<U+1F5E3><U+FE0F> Languages" @@
    "TagWeb3" :> "<U+26D3><U+FE0F> Web3" @@
    "TagDatabase" :> "<U+1F5C3><U+FE0F> Database" @@
    "TagSecurity" :> "<U+1F512> Security" @@
    "TagHardware" :> "<U+1F6E0><U+FE0F> Hardware" @@
    "TagVehicle" :> "<U+1F697> Vehicle" @@
    "TagNetwork" :> "<U+1F310> Network" @@
    "TagDevOps" :> "<U+1F680><U+FE0F> DevOps" @@
    "TagSystem" :> "<U+1F4BB> System" @@
    "TagEnterprise" :> "<U+1F3E2> Enterprise" @@
    "TagData" :> "<U+1F4CA> Data" @@
    "TagGaming" :> "<U+1F3AE> Gaming" @@
    "TagAgriculture" :> "<U+1F33E> Agriculture" @@
    "TagHealthcare" :> "<U+2695><U+FE0F> Healthcare" @@
    "TagKeynote" :> "<U+1F511> Keynote" @@
    "TagPolicy" :> "<U+1F4DC><U+FE0F> Policy" @@
    "TagGlobal" :> "<U+1F30D> Global" @@
    "TagOpenData" :> "<U+1F450><U+FE0F> OpenData" @@
    "TagEducation" :> "<U+1F393> Education" @@
    "TagSocial" :> "<U+1F37B> Social" @@
    "TagSideProject" :> "<U+1F4A1> SideProject"

\* A variant of align_tag_map: the label of DevOps has drifted from the other
\* tables (its variation selector is missing).
align_tag_map_Drifted ==
    [label \in (DOMAIN fetch_tag_map \ {"<U+1F680><U+FE0F> DevOps"}) \cup {"<U+1F680> DevOps"} |->
        IF label = "<U+1F680> DevOps" THEN "TagDevOps" ELSE fetch_tag_map[label]]

\* tag_map of generate_aligned_go_data: label -> constant.
align_tag_map ==
    "<U+1F9E0> AI" :> "TagAI" @@
    "<U+1F5E3><U+FE0F> Languages" :> "TagLanguages" @@
    "<U+26D3><U+FE0F> Web3" :> "TagWeb3" @@
    "<U+1F5C3><U+FE0F> Database" :> "TagDatabase" @@
    "<U+1F512> Security" :> "TagSecurity" @@
    "<U+1F6E0><U+FE0F> Hardware" :> "TagHardware" @@
    "<U+1F697> Vehicle" :> "TagVehicle" @@
    "<U+1F310> Network" :> "TagNetwork" @@
    "<U+1F680><U+FE0F> DevOps" :> "TagDevOps" @@
    "<U+1F4BB> System" :> "TagSystem" @@
    "<U+1F3E2> Enterprise" :> "TagEnterprise" @@
    "<U+1F4CA> Data" :> "TagData" @@
    "<U+1F3AE> Gaming" :> "TagGaming" @@
    "<U+1F33E> Agriculture" :> "TagAgriculture" @@
    "<U+2695><U+FE0F> Healthcare" :> "TagHealthcare" @@
    "<U+1F511> Keynote" :> "TagKeynote" @@
    "<U+1F4DC><U+FE0F> Policy" :> "TagPolicy" @@
    "<U+1F30D> Global" :> "TagGlobal" @@
    "<U+1F450><U+FE0F> OpenData" :> "TagOpenData" @@
    "<U+1F393> Education" :> "TagEducation" @@
    "<U+1F37B> Social" :> "TagSocial" @@
    "<U+1F4A1> SideProject" :> "TagSideProject"

\* tag_map of load_existing_tags_mapping: constant -> label.
load_tag_map ==
    "TagAI" :> "<U+1F9E0> AI" @@
    "TagLanguages" :> "<U+1F5E3><U+FE0F> Languages" @@
    "TagWeb3" :> "<U+26D3><U+FE0F> Web3" @@
    "TagDatabase" :> "<U+1F5C3><U+FE0F> Database" @@
    "TagSecurity" :> "<U+1F512> Security" @@
    "TagHardware" :> "<U+1F6E0><U+FE0F> Hardware" @@
    "TagVehicle" :> "<U+1F697> Vehicle" @@
    "TagNetwork" :> "<U+1F310> Network" @@
    "TagDevOps" :> "<U+1F680><U+FE0F> DevOps" @@
    "TagSystem" :> "<U+1F4BB> System" @@
    "TagEnterprise" :> "<U+1F3E2> Enterprise" @@
    "TagData" :> "<U+1F4CA> Data" @@
    "TagGaming" :> "<U+1F3AE> Gaming" @@
    "TagAgriculture" :> "<U+1F33E> Agriculture" @@
    "TagHealthcare" :> "<U+2695><U+FE0F> Healthcare" @@
    "TagKeynote" :> "<U+1F511> Keynote" @@
    "TagPolicy" :> "<U+1F4DC><U+FE0F> Policy" @@
    "TagGlobal" :> "<U+1F30D> Global" @@
    "TagOpenData" :> "<U+1F450><U+FE0F> OpenData" @@
    "TagEducation" :> "<U+1F393> Education" @@
    "TagSocial" :> "<U+1F37B> Social" @@
    "TagSideProject" :> "<U+1F4A1> SideProject"

(***************************************************************************)
(* The aggregate of run: a dict day -> room -> list of sessions, as a      *)
(* function on the keys present.                                           *)
(***************************************************************************)
EmptyDict == <<>>

\* A variant of AddSession: the bucket is set to the session instead of
\* extended by it.
AddSession_Overwrite(aggregate, session) ==
    LET rooms_of_day == IF session.day \in DOMAIN aggregate THEN aggregate[session.day] ELSE EmptyDict
        new_rooms == [r \in DOMAIN rooms_of_day \cup {session.room} |->
                        IF r = session.room THEN <<session>> ELSE rooms_of_day[r]]
    IN  [d \in DOMAIN aggregate \cup {session.day} |->
            IF d = session.day THEN new_rooms ELSE aggregate[d]]

\* The body of run's loop for one session: create the day and the room when
\* missing, and append.
AddSession(aggregate, session) ==
    LET rooms_of_day == IF session.day \in DOMAIN aggregate THEN aggregate[session.day] ELSE EmptyDict
        bucket == IF session.room \in DOMAIN rooms_of_day THEN rooms_of_day[session.room] ELSE <<>>
        new_rooms == [r \in DOMAIN rooms_of_day \cup {session.room} |->
                        IF r = session.room THEN Append(bucket, session) ELSE rooms_of_day[r]]
    IN  [d \in DOMAIN aggregate \cup {session.day} |->
            IF d = session.day THEN new_rooms ELSE aggregate[d]]

\* A variant of InsertByStart: before the sessions of equal start, as a sort
\* that is not stable may place it.
RECURSIVE InsertByStart_BeforeEqual(_, _)
InsertByStart_BeforeEqual(sorted, session) ==
    IF sorted = <<>> THEN <<session>>
    ELSE IF ~StrLess(sorted[Len(sorted)].start, session.start)
         THEN Append(InsertByStart_BeforeEqual(SubSeq(sorted, 1, Len(sorted) - 1), session),
                     sorted[Len(sorted)])
         ELSE Append(sorted, session)

\* One insertion of a stable sort by 'start': after every session whose start
\* is not greater.
RECURSIVE InsertByStart(_, _)
InsertByStart(sorted, session) ==
    IF sorted = <<>> THEN <<session>>
    ELSE IF StrLess(session.start, sorted[Len(sorted)].start)
         THEN Append(InsertByStart(SubSeq(sorted, 1, Len(sorted) - 1), session), sorted[Len(sorted)])
         ELSE Append(sorted, session)

\* list.sort(key=lambda s: s['start']): Python's sort is stable.
RECURSIVE SortByStart(_)
SortByStart(sessions) ==
    IF sessions = <<>> THEN <<>>
    ELSE InsertByStart(SortByStart(SubSeq(sessions, 1, Len(sessions) - 1)), sessions[Len(sessions)])

\* The sorting loops at the end of run.
SortAggregate(aggregate) ==
    [d \in DOMAIN aggregate |-> [r \in DOMAIN aggregate[d] |-> SortByStart(aggregate[d][r])]]

\* sorted(keys) for a set of strings.
RECURSIVE SortedStrings(_)
SortedStrings(S) ==
    IF S = {} THEN <<>>
    ELSE LET least == CHOOSE x \in S : \A y \in S \ {x} : StrLess(x, y)
         IN  <<least>> \o SortedStrings(S \ {least})

RECURSIVE ConcatAll(_)
ConcatAll(seqs) == IF seqs = <<>> THEN <<>> ELSE Head(seqs) \o ConcatAll(Tail(seqs))

\* A variant of EmissionOrder: the list of a room is visited sorted by start.
EmissionOrder_Resorted(data) ==
    LET days == SortedStrings(DOMAIN data)
        OfDay(day) ==
            LET rooms == SortedStrings(DOMAIN data[day])
            IN  ConcatAll([i \in 1..Len(rooms) |->
                    [j \in 1..Len(data[day][rooms[i]]) |->
                        [day |-> day, room |-> rooms[i],
                         session |-> SortByStart(data[day][rooms[i]])[j]]]])
    IN  ConcatAll([i \in 1..Len(days) |-> OfDay(days[i])])

\* The sessions in the order the nested loops of the Go writers visit them:
\* sorted(days), sorted(rooms), the list as it is.
EmissionOrder(data) ==
    LET days == SortedStrings(DOMAIN data)
        OfDay(day) ==
            LET rooms == SortedStrings(DOMAIN data[day])
            IN  ConcatAll([i \in 1..Len(rooms) |->
                    [j \in 1..Len(data[day][rooms[i]]) |->
                        [day |-> day, room |-> rooms[i], session |-> data[day][rooms[i]][j]]]])
    IN  ConcatAll([i \in 1..Len(days) |-> OfDay(days[i])])

(***************************************************************************)
(* align_data.  The existing embedded_data.go is the sequence of what the  *)
(* loader's regular expressions extract from it: per session entry its     *)
(* Code and the Tag... identifiers of its Tags list.                       *)
(***************************************************************************)
\* load_existing_tags_mapping: per entry the labels of the known constants,
\* kept when there is at least one; a later entry of a code replaces an
\* earlier one.
RECURSIVE load_existing_tags_mapping(_)
load_existing_tags_mapping(content) ==
    IF content = <<>> THEN EmptyDict
    ELSE LET before == load_existing_tags_mapping(SubSeq(content, 1, Len(content) - 1))
             entry == content[Len(content)]
             known == SelectSeq(entry.tag_constants, LAMBDA c : c \in DOMAIN load_tag_map)
             tags == [i \in 1..Len(known) |-> load_tag_map[known[i]]]
         IN  IF tags # <<>>
             THEN [c \in DOMAIN before \cup {entry.code} |-> IF c = entry.code THEN tags ELSE before[c]]
             ELSE before

\* tag_map.get(tag, f'"{tag}"') for each tag.
TagConstantsOf(tag_map, tags) ==
    [i \in 1..Len(tags) |->
        IF tags[i] \in DOMAIN tag_map THEN tag_map[tags[i]] ELSE "\"" \o tags[i] \o "\""]

\* The escaping of generate_aligned_go_data: backslash, quote, newline and
\* carriage return, replaced in that order.
RECURSIVE EscapeAligned(_)
EscapeAligned(s) ==
    IF s = <<>> THEN <<>>
    ELSE LET c == Head(s)
             e == IF c = "\\" THEN <<"\\","\\">>
                  ELSE IF c = "\"" THEN <<"\\","\"">>
                  ELSE IF c = "\n" THEN <<"\\","n">>
                  ELSE IF c = "\r" THEN <<"\\","r">>
                  ELSE <<c>>
         IN  e \o EscapeAligned(Tail(s))

\* A variant of AlignedTags: the keyword tags are added to the existing ones
\* instead of being replaced by them.
AlignedTags_Merged(session, existing) ==
    IF session.code \in DOMAIN existing
    THEN existing[session.code] \o generate_fallback_tags(session)
    ELSE generate_fallback_tags(session)

\* The tags generate_aligned_go_data gives a session: the existing ones when
\* the code has some, else the fallback classification.
AlignedTags(session, existing) ==
    IF session.code \in DOMAIN existing
    THEN existing[session.code]
    ELSE generate_fallback_tags(session)

\* The struct literal generate_aligned_go_data writes for a session, field by
\* field, under the day and room it is visited in.
AlignedEntry(item, existing) ==
    LET session == item.session
    IN  [day_key |-> item.day, room_key |-> item.room,
         Code |-> session.code,
         Title |-> EscapeAligned(session.title),
         Speakers |-> session.speakers,
         Start |-> session.start, End |-> session.end,
         Track |-> EscapeAligned(session.track),
         Abstract |-> EscapeAligned(session.abstract),
         Language |-> session.language, Difficulty |-> session.difficulty,
         Room |-> session.room, Day |-> session.day, URL |-> session.url,
         Tags |-> TagConstantsOf(align_tag_map, AlignedTags(session, existing))]

\* A variant of NextStats: a session with generated tags is counted, but its
\* code is not listed.
NextStats_CodeNotListed(stats, session, existing) ==
    IF session.code \in DOMAIN existing
    THEN [stats EXCEPT !.total_sessions = @ + 1, !.existing_tags_used = @ + 1]
    ELSE [stats EXCEPT !.total_sessions = @ + 1, !.new_tags_generated = @ + 1]

\* The statistics after one more session.
NextStats(stats, session, existing) ==
    IF session.code \in DOMAIN existing
    THEN [stats EXCEPT !.total_sessions = @ + 1, !.existing_tags_used = @ + 1]
    ELSE [stats EXCEPT !.total_sessions = @ + 1, !.new_tags_generated = @ + 1,
                       !.missing_sessions = Append(@, session.code)]

InitialStats ==
    [total_sessions |-> 0, existing_tags_used |-> 0, new_tags_generated |-> 0,
     missing_sessions |-> <<>>]

(***************************************************************************)
(* The inputs of the pipeline: what the pretalx API returns and the        *)
(* embedded_data.go the alignment reads.                                   *)
(***************************************************************************)
\* The codes of the submissions, in the order the API lists them.
SubmissionCodes == <<"JPADKC", "AB3DEF", "XYZ789", "QRS456", "LMN012">>

Timestamp(day, hour, minute, tz) == [day |-> day, hour |-> hour, minute |-> minute, tz |-> tz]

\* The 'slots' lists: none, one lacking its start, its end or its room, and
\* complete ones (two days, two rooms, two starts).
PipelineSlots ==
    {<<>>,
     <<[start |-> <<>>, end |-> <<Timestamp(9, 10, 30, "+08:00")>>, room |-> 1]>>,
     <<[start |-> <<Timestamp(9, 10, 0, "+08:00")>>, end |-> <<>>, room |-> 1]>>,
     <<[start |-> <<Timestamp(9, 10, 0, "+08:00")>>, end |-> <<Timestamp(9, 10, 30, "+08:00")>>, room |-> 0]>>,
     <<[start |-> <<Timestamp(9, 10, 0, "+08:00")>>, end |-> <<Timestamp(9, 10, 30, "+08:00")>>, room |-> 1]>>,
     <<[start |-> <<Timestamp(9, 9, 30, "+08:00")>>, end |-> <<Timestamp(9, 10, 0, "+08:00")>>, room |-> 1]>>,
     <<[start |-> <<Timestamp(9, 9, 30, "+08:00")>>, end |-> <<Timestamp(9, 10, 0, "+08:00")>>, room |-> 2]>>,
     <<[start |-> <<Timestamp(10, 9, 30, "+08:00")>>, end |-> <<Timestamp(10, 10, 0, "+08:00")>>, room |-> 1]>>}

PipelineTitles ==
    {<<"K","e","r","n","e","l"," ","a","t","t","a","c","k">>,       \* 'Kernel attack'
     <<"L","i","g","h","t","n","i","n","g"," ","t","a","l","k">>}   \* 'Lightning talk'

\* A 'slots' list whose first slot has its start, its end and its room.
CompleteSlots(slots) ==
    /\ slots # <<>>
    /\ slots[1].start # <<>>
    /\ slots[1].end # <<>>
    /\ slots[1].room # 0

\* The submissions the API may list at a position: any slots, and for a
\* complete slot either title.
PipelineSubmission(position, title, slots) ==
    [code |-> SubmissionCodes[position], title |-> title,
     abstract |-> <<"I","n","t","r","o",".">>,
     speakers |-> <<"SPK001", "SPK002">>, track |-> 0, slots |-> slots, answers |-> <<>>]

PipelineSubmissions(position) ==
    {PipelineSubmission(position, title, slots) :
        title \in PipelineTitles, slots \in {s \in PipelineSlots : CompleteSlots(s)}}
    \cup
    {PipelineSubmission(position, <<"L","i","g","h","t","n","i","n","g"," ","t","a","l","k">>, slots) :
        slots \in {s \in PipelineSlots : ~CompleteSlots(s)}}

PipelineSpeakers == "SPK001" :> <<"Alice">>

PipelineRooms ==
    1 :> [en |-> <<"R","B","1","0","5">>, zhtw |-> <<>>] @@
    2 :> [en |-> <<>>, zhtw |-> <<"A","U">>]

PipelineTracks == 1 :> [en |-> <<"M","a","i","n">>, zhtw |-> <<>>]

\* The entries of the existing embedded_data.go: a code listed twice, a code
\* with unknown constants only, a code with a known and an unknown constant,
\* and a code the API no longer lists.
EmbeddedFile ==
    <<[code |-> "JPADKC", tag_constants |-> <<"TagAI">>],
      [code |-> "AB3DEF", tag_constants |-> <<"TagWorkshop">>],
      [code |-> "XYZ789", tag_constants |-> <<"TagKeynote", "TagWorkshop">>],
      [code |-> "JPADKC", tag_constants |-> <<"TagVehicle", "TagHardware">>],
      [code |-> "OLD999", tag_constants |-> <<"TagAI">>]>>

(***************************************************************************)
(* The inputs of the classifiers, for the specification that applies them  *)
(* to one session (SpecTags).                                              *)
(***************************************************************************)
TagTracks ==
    {<<"G","e","n","e","r","a","l">>,                                       \* 'General'
     <<"M","a","i","n"," ","T","r","a","c","k">>,                           \* 'Main Track'
     <<"S","y","s","t","e","m"," ","S","o","f","t","w","a","r","e">>,       \* 'System Software'
     <<"M","a","c","h","i","n","e">>}                                       \* 'Machine'

TagTitles ==
    {<<>>,                                                                  \* ''
     <<"O","p","e","n","i","n","g">>,                                       \* 'Opening'
     <<"K","e","y","n","o","t","e"," ","s","p","e","e","c","h">>,           \* 'Keynote speech'
     \* 'COSCUP Security Track: Practical Attack Techniques'
     <<"C","O","S","C","U","P"," ","S","e","c","u","r","i","t","y"," ","T","r","a","c","k",":"," ",
       "P","r","a","c","t","i","c","a","l"," ","A","t","t","a","c","k"," ",
       "T","e","c","h","n","i","q","u","e","s">>,
     \* 'Learning Go with ChatGPT'
     <<"L","e","a","r","n","i","n","g"," ","G","o"," ","w","i","t","h"," ","C","h","a","t","G","P","T">>,
     <<"L","i","g","h","t","n","i","n","g"," ","t","a","l","k">>,           \* 'Lightning talk'
     <<"L","e","a","r","n","i","n","g">>,                                   \* 'Learning'
     \* 'PostgreSQL networking'
     <<"P","o","s","t","g","r","e","S","Q","L"," ","n","e","t","w","o","r","k","i","n","g">>}

TagAbstracts ==
    {<<>>,                                                                  \* ''
     <<"I","n","t","r","o",".">>,                                           \* 'Intro.'
     \* 'An API for the Linux kernel'
     <<"A","n"," ","A","P","I"," ","f","o","r"," ","t","h","e"," ","L","i","n","u","x"," ",
       "k","e","r","n","e","l">>,
     <<"S","t","u","d","e","n","t","s"," ","w","e","l","c","o","m","e">>}   \* 'Students welcome'

\* Codes: two of the existing embedded_data.go (one with known constants, one
\* with unknown ones only) and one it does not list.
TagCodes == {"JPADKC", "AB3DEF", "NEW001"}

\* The paths that give a session its tags.
TagPaths == {"classify", "align", "generate"}

(***************************************************************************)
(* The inputs of process_session, for the specification that applies it to *)
(* one submission (SpecNorm).                                              *)
(***************************************************************************)
\* The answer lists: the difficulty question unanswered or answered with a
\* value of the table, one outside it, one padded with whitespace, an empty or
\* blank one, or answered twice; the same for the language question.
NormDifficultyAnswers ==
    {<<>>,
     <<[question |-> 59, answer |-> <<"B","e","g","i","n","n","e","r">>]>>,
     <<[question |-> 59, answer |-> <<"A","d","v","a","n","c","e","d">>]>>,
     <<[question |-> 59, answer |-> <<"E","x","p","e","r","t">>]>>,
     <<[question |-> 59, answer |-> <<" ","E","x","p","e","r","t">>]>>,
     <<[question |-> 59, answer |-> <<" ","B","e","g","i","n","n","e","r","\n">>]>>,
     <<[question |-> 59, answer |-> <<>>]>>,
     <<[question |-> 59, answer |-> <<" "," "," ">>]>>,
     <<[question |-> 59, answer |-> <<"E","n","g","l","i","s","h">>]>>,
     <<[question |-> 59, answer |-> <<"E","x","p","e","r","t">>],
       [question |-> 59, answer |-> <<"B","e","g","i","n","n","e","r">>]>>}

NormLanguageAnswers ==
    {<<>>,
     <<[question |-> 57, answer |-> <<"E","n","g","l","i","s","h">>]>>,
     <<[question |-> 57, answer |-> <<"T","a","i","w","a","n","e","s","e">>]>>,
     <<[question |-> 57, answer |-> <<"C","h","i","n","e","s","e"," ">>]>>,
     <<[question |-> 57, answer |-> <<>>]>>}

\* The slots: the same half hour written with three UTC offsets, a half hour
\* that is the next day in Taiwan, and a slot without a room.
NormSlots ==
    {<<[start |-> <<Timestamp(9, 10, 0, "+08:00")>>, end |-> <<Timestamp(9, 10, 30, "+08:00")>>]>>,
     <<[start |-> <<Timestamp(9, 2, 0, "Z")>>, end |-> <<Timestamp(9, 2, 30, "Z")>>]>>,
     <<[start |-> <<Timestamp(9, 11, 0, "+09:00")>>, end |-> <<Timestamp(9, 11, 30, "+09:00")>>]>>,
     <<[start |-> <<Timestamp(8, 17, 45, "+00:00")>>, end |-> <<Timestamp(8, 18, 15, "+00:00")>>]>>}

\* The room ids of a slot: 0 is no room, 4 is not in the table.
NormRoomIds == 0..4

\* The rooms table: a room with both names, one with the second only, one
\* with no name.
NormRooms ==
    1 :> [en |-> <<"R","B","1","0","5">>,
          zhtw |-> <<"U+570B","U+969B","U+6703","U+8B70","U+5EF3">>] @@
    2 :> [en |-> <<>>, zhtw |-> <<"A","U">>] @@
    3 :> [en |-> <<>>, zhtw |-> <<>>]

\* The track ids of a submission: 0 is no track, 4 is not in the table.
NormTrackIds == 0..4

NormTracks ==
    1 :> [en |-> <<"M","a","i","n">>, zhtw |-> <<"U+4E3B","U+8B70","U+7A0B">>] @@
    2 :> [en |-> <<"M","a","i","n">>, zhtw |-> <<>>] @@
    3 :> [en |-> <<>>, zhtw |-> <<>>]

NormSubmissions ==
    {[code |-> "JPADKC",
      title |-> <<"L","i","g","h","t","n","i","n","g"," ","t","a","l","k">>,
      abstract |-> <<"I","n","t","r","o",".">>,
      speakers |-> <<"SPK001", "SPK002">>,
      track |-> track,
      slots |-> <<[start |-> slots[1].start, end |-> slots[1].end, room |-> room]>>,
      answers |-> difficulty \o language] :
        track \in NormTrackIds, slots \in NormSlots, room \in NormRoomIds,
        difficulty \in NormDifficultyAnswers, language \in NormLanguageAnswers}

\* The speakers table: a speaker with a name, one without the 'name' key, and
\* a second one with a name.
NormSpeakers == "SPK001" :> <<"Alice">> @@ "SPK002" :> <<>> @@ "SPK003" :> <<"Bob">>

\* The speaker-code lists: none, known codes, a code twice, a code that is not
\* in the table, a speaker without a name.
NormSpeakerCodes ==
    {<<>>,
     <<"SPK001">>,
     <<"SPK003", "SPK001">>,
     <<"SPK001", "SPK999", "SPK001">>,
     <<"SPK999", "SPK002", "SPK003">>}

\* A text of a given length, its characters told apart by their place.
LongText(length) ==
    [i \in 1..length |-> IF i % 7 = 0 THEN "x" ELSE IF i % 2 = 0 THEN "y" ELSE "z"]

\* The abstracts: none (missing, null or empty), a short one, and texts of 200,
\* 201 and 250 characters.
NormAbstracts ==
    {<<>>,
     <<"I","n","t","r","o",".">>,
     LongText(200),
     LongText(201),
     LongText(250)}

\* The times of a slot: a half hour, an empty interval, an hour over midnight,
\* an hour that is over midnight in Taiwan only, a half hour whose end is
\* written in UTC and its start in Taiwan time, and an end before its start.
NormTimes ==
    {[start |-> <<Timestamp(9, 10, 0, "+08:00")>>, end |-> <<Timestamp(9, 10, 30, "+08:00")>>],
     [start |-> <<Timestamp(9, 10, 0, "+08:00")>>, end |-> <<Timestamp(9, 10, 0, "+08:00")>>],
     [start |-> <<Timestamp(9, 23, 30, "+08:00")>>, end |-> <<Timestamp(10, 0, 30, "+08:00")>>],
     [start |-> <<Timestamp(9, 15, 30, "Z")>>, end |-> <<Timestamp(9, 16, 30, "Z")>>],
     [start |-> <<Timestamp(9, 10, 0, "+08:00")>>, end |-> <<Timestamp(9, 2, 30, "Z")>>],
     [start |-> <<Timestamp(9, 10, 30, "+08:00")>>, end |-> <<Timestamp(9, 10, 0, "+08:00")>>]}

\* The submissions that differ in their speakers, abstract and times.
NormTextSubmissions ==
    {[code |-> "AB3DEF",
      title |-> <<"L","i","g","h","t","n","i","n","g"," ","t","a","l","k">>,
      abstract |-> abstract,
      speakers |-> speakers,
      track |-> 1,
      slots |-> <<[start |-> time.start, end |-> time.end, room |-> 1]>>,
      answers |-> <<>>] :
        speakers \in NormSpeakerCodes, abstract \in NormAbstracts, time \in NormTimes}

(***************************************************************************)
(* The pretalx API, as fetch_paginated sees it: every endpoint is a chain  *)
(* of pages linked by 'next', and at most one request fails.               *)
(***************************************************************************)
MaxPages == 2

\* The endpoints, in the order run fetches them.
Endpoints == <<"submissions", "speakers", "rooms", "tracks">>

\* The query parameters of fetch_submissions; the other fetches pass none.
SubmissionParams == [state |-> "confirmed", expand |-> "answers,slots", page_size |-> "50"]

EndpointParams(endpoint) == IF endpoint = "submissions" THEN <<SubmissionParams>> ELSE <<>>

\* A URL of the API: page 1 is the endpoint's own URL, the others are the
\* 'next' links.
ApiUrl(endpoint, page) == [endpoint |-> endpoint, page |-> page]

EndpointUrl(endpoint) == ApiUrl(endpoint, 1)

\* Everything the API lists under an endpoint, in its order.
ApiItems(endpoint) ==
    CASE endpoint = "submissions" ->
           <<PipelineSubmission(1, <<"K","e","r","n","e","l"," ","a","t","t","a","c","k">>,
                <<[start |-> <<Timestamp(9, 10, 0, "+08:00")>>,
                   end |-> <<Timestamp(9, 10, 30, "+08:00")>>, room |-> 1]>>),
             PipelineSubmission(2, <<"L","i","g","h","t","n","i","n","g"," ","t","a","l","k">>, <<>>),
             PipelineSubmission(3, <<"K","e","r","n","e","l"," ","a","t","t","a","c","k">>,
                <<[start |-> <<Timestamp(9, 9, 30, "+08:00")>>,
                   end |-> <<Timestamp(9, 10, 0, "+08:00")>>, room |-> 1]>>)>>
      [] endpoint = "speakers" ->
           <<[code |-> "SPK001", name |-> <<"Bob">>],
             [code |-> "SPK002", name |-> <<>>],
             [code |-> "SPK001", name |-> <<"Alice">>]>>
      [] endpoint = "rooms" ->
           <<[id |-> 1, name |-> PipelineRooms[1]], [id |-> 2, name |-> PipelineRooms[2]]>>
      [] endpoint = "tracks" ->
           <<[id |-> 1, name |-> PipelineTracks[1]]>>

\* The page an item is on when the endpoint has so many pages: the items are
\* cut into consecutive pages (the last pages are empty when there are more
\* pages than items).
PageOf(index, pages, items) == (((index - 1) * pages) \div Len(items)) + 1

\* The response to a request: its status, and the 'results' and 'next' of its
\* JSON body.
ApiResponse(api, url) ==
    LET items == ApiItems(url.endpoint)
        pages == api.pages[url.endpoint]
        on_page(i) == PageOf(i, pages, items) = url.page
        RECURSIVE Slice(_)
        Slice(i) == IF i > Len(items) THEN <<>>
                    ELSE (IF on_page(i) THEN <<items[i]>> ELSE <<>>) \o Slice(i + 1)
    IN  [ok |-> api.fail # <<url>>,
         results |-> Slice(1),
         next |-> IF url.page < pages THEN <<ApiUrl(url.endpoint, url.page + 1)>> ELSE <<>>]

\* The APIs of the model: 1..MaxPages pages per endpoint, and no failing
\* request or one, anywhere.
Apis ==
    {[pages |-> pages, fail |-> fail] :
        pages \in [{Endpoints[e] : e \in 1..Len(Endpoints)} -> 1..MaxPages],
        fail \in {<<>>} \cup {<<ApiUrl(Endpoints[e], p)>> : e \in 1..Len(Endpoints), p \in 1..MaxPages}}

\* fetch_speakers: code -> speaker's name (<<>> for a speaker without one),
\* the last item of a code winning.
fetch_speakers(items) ==
    [code \in {items[i].code : i \in 1..Len(items)} |->
        LET last == CHOOSE i \in 1..Len(items) :
                        /\ items[i].code = code
                        /\ \A j \in (i + 1)..Len(items) : items[j].code # code
        IN  items[last].name]

\* fetch_rooms and fetch_tracks: id -> the item's names, the last item of an
\* id winning.
fetch_by_id(items) ==
    [id \in {items[i].id : i \in 1..Len(items)} |->
        LET last == CHOOSE i \in 1..Len(items) :
                        /\ items[i].id = id
                        /\ \A j \in (i + 1)..Len(items) : items[j].id # id
        IN  items[last].name]

\* run's loop over the submissions: the aggregate before the sort.
RECURSIVE RunLoop(_, _, _, _)
RunLoop(subs, speakers, rooms, tracks) ==
    IF subs = <<>> THEN EmptyDict
    ELSE LET before == RunLoop(SubSeq(subs, 1, Len(subs) - 1), speakers, rooms, tracks)
             session == process_session(subs[Len(subs)], speakers, rooms, tracks)
         IN  IF session # <<>> THEN AddSession(before, session[1]) ELSE before

\* run, from the four fetched lists to the aggregate it returns.
run(fetched) ==
    SortAggregate(RunLoop(fetched[1], fetch_speakers(fetched[2]),
                          fetch_by_id(fetched[3]), fetch_by_id(fetched[4])))

(***************************************************************************)
(* json.loads, on a text given as the sequence of its characters.  A JSON  *)
(* value is the record [type, items, chars]: a string has chars, an array  *)
(* has items, an object has items [key, value] in document order.          *)
(***************************************************************************)
\* A run of '[' longer than the interpreter's recursion limit, as one item of
\* a text: json.loads raises RecursionError when it descends into it.
DeepNesting == "[...["

\* The backquote character.
Backquote == "BQ"

JsonString(chars) == [type |-> "str", items |-> <<>>, chars |-> chars]

JsonArray(items) == [type |-> "array", items |-> items, chars |-> <<>>]

JsonObject(members) == [type |-> "object", items |-> members, chars |-> <<>>]

\* What a step of the decoder gives: a value and the rest of the text, or
\* JSONDecodeError, or RecursionError.
Decoded(value, rest) == [status |-> "ok", value |-> value, rest |-> rest]

DecodeError == [status |-> "JSONDecodeError", value |-> JsonString(<<>>), rest |-> <<>>]

DecodeTooDeep == [status |-> "RecursionError", value |-> JsonString(<<>>), rest |-> <<>>]

\* The text without its leading whitespace.
RECURSIVE SkipWhitespace(_)
SkipWhitespace(s) ==
    IF s # <<>> /\ Head(s) \in {" ", "\n", "\t", "\r"} THEN SkipWhitespace(Tail(s)) ELSE s

\* The string whose opening quote has been read: up to the closing quote, the
\* escapes \" \\ \/ \n \r \t decoded, any other escape an error.
RECURSIVE DecodeString(_, _)
DecodeString(s, chars) ==
    IF s = <<>> THEN DecodeError
    ELSE IF Head(s) = "\"" THEN Decoded(JsonString(chars), Tail(s))
    ELSE IF Head(s) \in {"\n", "\t", "\r"} THEN DecodeError
    ELSE IF Head(s) = "\\"
         THEN IF Len(s) < 2 THEN DecodeError
              ELSE IF s[2] \in {"\"", "\\", "/"} THEN DecodeString(Tail(Tail(s)), Append(chars, s[2]))
              ELSE IF s[2] = "n" THEN DecodeString(Tail(Tail(s)), Append(chars, "\n"))
              ELSE IF s[2] = "r" THEN DecodeString(Tail(Tail(s)), Append(chars, "\r"))
              ELSE IF s[2] = "t" THEN DecodeString(Tail(Tail(s)), Append(chars, "\t"))
              ELSE DecodeError
    ELSE DecodeString(Tail(s), Append(chars, Head(s)))

\* A value at the head of the text; the items of an array whose '[' has been
\* read; the members of an object whose '{' has been read.
RECURSIVE DecodeValue(_)
RECURSIVE DecodeItems(_, _)
RECURSIVE DecodeMembers(_, _)
DecodeValue(s) ==
    IF s = <<>> THEN DecodeError
    ELSE IF Head(s) = DeepNesting THEN DecodeTooDeep
    ELSE IF Head(s) = "\"" THEN DecodeString(Tail(s), <<>>)
    ELSE IF Head(s) = "["
         THEN LET rest == SkipWhitespace(Tail(s))
              IN  IF rest # <<>> /\ Head(rest) = "]" THEN Decoded(JsonArray(<<>>), Tail(rest))
                  ELSE DecodeItems(rest, <<>>)
    ELSE IF Head(s) = "{"
         THEN LET rest == SkipWhitespace(Tail(s))
              IN  IF rest # <<>> /\ Head(rest) = "}" THEN Decoded(JsonObject(<<>>), Tail(rest))
                  ELSE DecodeMembers(rest, <<>>)
    ELSE DecodeError

DecodeItems(s, items) ==
    LET item == DecodeValue(s)
    IN  IF item.status # "ok" THEN item
        ELSE LET rest == SkipWhitespace(item.rest)
                 so_far == Append(items, item.value)
             IN  IF rest = <<>> THEN DecodeError
                 ELSE IF Head(rest) = "]" THEN Decoded(JsonArray(so_far), Tail(rest))
                 ELSE IF Head(rest) = "," THEN DecodeItems(SkipWhitespace(Tail(rest)), so_far)
                 ELSE DecodeError

DecodeMembers(s, members) ==
    IF s = <<>> \/ Head(s) # "\"" THEN DecodeError
    ELSE LET key == DecodeString(Tail(s), <<>>)
         IN  IF key.status # "ok" THEN key
             ELSE LET colon == SkipWhitespace(key.rest)
                  IN  IF colon = <<>> \/ Head(colon) # ":" THEN DecodeError
                      ELSE LET member == DecodeValue(SkipWhitespace(Tail(colon)))
                           IN  IF member.status # "ok" THEN member
                               ELSE LET rest == SkipWhitespace(member.rest)
                                        so_far == Append(members, [key |-> key.value.chars,
                                                                   value |-> member.value])
                                    IN  IF rest = <<>> THEN DecodeError
                                        ELSE IF Head(rest) = "}"
                                             THEN Decoded(JsonObject(so_far), Tail(rest))
                                        ELSE IF Head(rest) = ","
                                             THEN DecodeMembers(SkipWhitespace(Tail(rest)), so_far)
                                        ELSE DecodeError

\* json.loads: one value, whitespace around it, and nothing after.
json_loads(s) ==
    LET decoded == DecodeValue(SkipWhitespace(s))
    IN  IF decoded.status # "ok" THEN decoded
        ELSE IF SkipWhitespace(decoded.rest) # <<>> THEN DecodeError
        ELSE decoded

(***************************************************************************)
(* fetch_sessions_from_js: the search for the payload in the bundle and    *)
(* the two passes on it.  The bundle is the sequence of its characters,    *)
(* the text 'JSON.parse(' being one item.                                  *)
(***************************************************************************)
MaxPayload == 4

\* The item begins with '['; the item ends with ']'.
OpensBracket(c) == c \in {"[", DeepNesting}

ClosesBracket(c) == c = "]"

\* The places where JSON.parse(`[ begins, and for such a place the places of a
\* ] followed by `).
ParseCalls(content) ==
    {i \in 1..(Len(content) - 2) :
        /\ content[i] = "JSON.parse("
        /\ content[i + 1] = Backquote
        /\ OpensBracket(content[i + 2])}

PayloadEnds(content, i) ==
    {j \in (i + 3)..(Len(content) - 2) :
        /\ ClosesBracket(content[j])
        /\ content[j + 1] = Backquote
        /\ content[j + 2] = ")"}

\* re.search(r'JSON\.parse\(`(\[.*?\])`\)', js_content, re.DOTALL): the group
\* of the leftmost match, the shortest from there; <<>> when nothing matches.
SearchPayload(content) ==
    LET calls == {i \in ParseCalls(content) : PayloadEnds(content, i) # {}}
    IN  IF calls = {} THEN <<>>
        ELSE LET i == CHOOSE c \in calls : \A d \in calls : c <= d
                 j == CHOOSE e \in PayloadEnds(content, i) : \A f \in PayloadEnds(content, i) : e <= f
             IN  <<SubSeq(content, i + 2, j)>>

\* re.search(r'=\s*JSON\.parse\(`(\[.*\])`\)', js_content, re.DOTALL): the call
\* after an '=' and whitespace, the longest group from there.
RECURSIVE AfterEquals(_, _)
AfterEquals(content, i) ==
    IF i <= 1 THEN FALSE
    ELSE IF content[i - 1] = "=" THEN TRUE
    ELSE IF content[i - 1] \in {" ", "\n", "\t", "\r"} THEN AfterEquals(content, i - 1)
    ELSE FALSE

SearchAssignedPayload(content) ==
    LET calls == {i \in ParseCalls(content) : PayloadEnds(content, i) # {} /\ AfterEquals(content, i)}
    IN  IF calls = {} THEN <<>>
        ELSE LET i == CHOOSE c \in calls : \A d \in calls : c <= d
                 j == CHOOSE e \in PayloadEnds(content, i) : \A f \in PayloadEnds(content, i) : e >= f
             IN  <<SubSeq(content, i + 2, j)>>

\* str.replace of a pair of characters by one character, left to right.
RECURSIVE ReplacePair(_, _, _, _)
ReplacePair(s, first, second, by) ==
    IF s = <<>> THEN <<>>
    ELSE IF Len(s) >= 2 /\ s[1] = first /\ s[2] = second
         THEN <<by>> \o ReplacePair(Tail(Tail(s)), first, second, by)
    ELSE <<Head(s)>> \o ReplacePair(Tail(s), first, second, by)

\* The first pass: \` to `, then \" to ", then \\ to \.
NormalizeEscapes(json_str) ==
    ReplacePair(ReplacePair(ReplacePair(json_str, "\\", Backquote, Backquote),
                            "\\", "\"", "\""),
                "\\", "\\", "\\")

\* The second pass, re.sub(r'\\([^"\\nt])', r'\1', json_str): a backslash is
\* dropped when the character after it is none of " \ n t.
RECURSIVE StripBackslashes(_)
StripBackslashes(s) ==
    IF s = <<>> THEN <<>>
    ELSE IF Len(s) >= 2 /\ s[1] = "\\" /\ s[2] \notin {"\"", "\\", "n", "t"}
         THEN <<s[2]>> \o StripBackslashes(Tail(Tail(s)))
    ELSE <<Head(s)>> \o StripBackslashes(Tail(s))

\* The characters of the payloads of the model.
PayloadAlphabet == {"[", "]", "\"", "\\", "a", "n", Backquote, DeepNesting}

\* The texts over the alphabet of at most so many characters.
RECURSIVE TextsUpTo(_)
TextsUpTo(length) ==
    IF length = 0 THEN {<<>>}
    ELSE LET shorter == TextsUpTo(length - 1)
         IN  shorter \cup {Append(t, c) : t \in {u \in shorter : Len(u) = length - 1},
                                          c \in PayloadAlphabet}

\* The bundles: an assignment of JSON.parse(`...`) with any text between the
\* backquotes, and bundles without a call, with two calls, with a call that
\* is not an assignment, and with a payload of several items.
Bundles ==
    {<<"e", "=", "JSON.parse(", Backquote>> \o text \o <<Backquote, ")", ";">> :
        text \in TextsUpTo(MaxPayload)}
    \cup
    {<<>>,
     <<"e", "=", "[", "]">>,
     <<"JSON.parse(", Backquote, "[", "]", Backquote, ")">>,
     <<"e", "=", " ", "JSON.parse(", Backquote, "[", "\"", "a", "\"", ",", "[", "]", "]", Backquote, ")">>,
     <<"JSON.parse(", Backquote, "[", "]", Backquote, ")", ";",
       "JSON.parse(", Backquote, "[", "a", "]", Backquote, ")">>,
     <<"JSON.parse(", Backquote, "[", "a", Backquote, ")", ";",
       "JSON.parse(", Backquote, "[", "]", Backquote, ")">>}

(***************************************************************************)
(* The writers of main: json.dump(sessions_data, f, indent=2,              *)
(* ensure_ascii=False) and generate_go_data.  A text is the sequence of    *)
(* its characters; a run of ordinary characters (a key, a code, a name)    *)
(* may be one item.                                                        *)
(***************************************************************************)
\* str.replace of one character by a text.
RECURSIVE ReplaceChar(_, _, _)
ReplaceChar(s, c, by) ==
    IF s = <<>> THEN <<>>
    ELSE (IF Head(s) = c THEN by ELSE <<Head(s)>>) \o ReplaceChar(Tail(s), c, by)

\* The escapes of json's encoder with ensure_ascii=False.
RECURSIVE JsonEscape(_)
JsonEscape(chars) ==
    IF chars = <<>> THEN <<>>
    ELSE LET c == Head(chars)
             e == IF c = "\\" THEN <<"\\", "\\">>
                  ELSE IF c = "\"" THEN <<"\\", "\"">>
                  ELSE IF c = "\n" THEN <<"\\", "n">>
                  ELSE IF c = "\r" THEN <<"\\", "r">>
                  ELSE IF c = "\t" THEN <<"\\", "t">>
                  ELSE <<c>>
         IN  e \o JsonEscape(Tail(chars))

JsonQuote(chars) == <<"\"">> \o JsonEscape(chars) \o <<"\"">>

\* indent=2: a newline and two spaces for every level.
JsonIndent == 2

NewlineIndent(level) == <<"\n">> \o [i \in 1..(JsonIndent * level) |-> " "]

\* json.dumps(value, indent=2, ensure_ascii=False), the value at a level of
\* nesting.
RECURSIVE json_dumps(_, _)
json_dumps(value, level) ==
    IF value.type = "str" THEN JsonQuote(value.chars)
    ELSE IF value.items = <<>>
         THEN IF value.type = "array" THEN <<"[", "]">> ELSE <<"{", "}">>
    ELSE LET count == Len(value.items)
             Item(i) ==
                 IF value.type = "array" THEN json_dumps(value.items[i], level + 1)
                 ELSE JsonQuote(value.items[i].key) \o <<":", " ">>
                      \o json_dumps(value.items[i].value, level + 1)
             Line(i) == NewlineIndent(level + 1) \o Item(i)
                        \o (IF i < count THEN <<",">> ELSE <<>>)
         IN  <<IF value.type = "array" THEN "[" ELSE "{">>
             \o ConcatAll([i \in 1..count |-> Line(i)])
             \o NewlineIndent(level)
             \o <<IF value.type = "array" THEN "]" ELSE "}">>

\* The session dict as json sees it: the keys in the order process_session
\* sets them.
SessionJson(session) ==
    JsonObject(
        <<[key |-> <<"code">>, value |-> JsonString(<<session.code>>)],
          [key |-> <<"title">>, value |-> JsonString(session.title)],
          [key |-> <<"speakers">>,
           value |-> JsonArray([i \in 1..Len(session.speakers) |->
                                   JsonString(<<session.speakers[i]>>)])],
          [key |-> <<"start">>, value |-> JsonString(session.start)],
          [key |-> <<"end">>, value |-> JsonString(session.end)],
          [key |-> <<"track">>, value |-> JsonString(session.track)],
          [key |-> <<"abstract">>, value |-> JsonString(session.abstract)],
          [key |-> <<"language">>, value |-> JsonString(session.language)],
          [key |-> <<"difficulty">>, value |-> JsonString(session.difficulty)],
          [key |-> <<"room">>, value |-> JsonString(session.room)],
          [key |-> <<"day">>, value |-> JsonString(session.day)],
          [key |-> <<"tags">>,
           value |-> JsonArray([i \in 1..Len(session.tags) |->
                                   JsonString(<<session.tags[i]>>)])],
          [key |-> <<"url">>, value |-> JsonString(<<session.url>>)]>>)

\* The aggregate as json sees it.  A dict is written in the order its keys
\* were inserted, which the aggregate of the model does not keep: the days
\* and the rooms are taken in sorted order, one of the orders run can give.
AggregateJson(data) ==
    LET days == SortedStrings(DOMAIN data)
        RoomsJson(day) ==
            LET rooms == SortedStrings(DOMAIN data[day])
            IN  JsonObject([j \in 1..Len(rooms) |->
                    [key |-> rooms[j],
                     value |-> JsonArray([k \in 1..Len(data[day][rooms[j]]) |->
                                             SessionJson(data[day][rooms[j]][k])])]])
    IN  JsonObject([i \in 1..Len(days) |-> [key |-> days[i], value |-> RoomsJson(days[i])]])

\* The document main writes for the aggregate.
json_dump(data) == json_dumps(AggregateJson(data), 0)

\* The seconds the clock may have advanced at a write.
MaxSeconds == 1

\* datetime.now().strftime("%Y-%m-%d %H:%M:%S"), for a clock so many seconds
\* after 2025-08-01 12:00:00.
StrftimeNow(now) == <<"2025-08-01 12:00:">> \o TwoDigits(now)

\* The escaping of generate_go_data: the quote, then the newline.
EscapeGo(s) == ReplaceChar(ReplaceChar(s, "\"", <<"\\", "\"">>), "\n", <<"\\", "n">>)

\* The const block of generate_go_data: the constants and labels of the
\* three writers are the same.
fetch_const_block == generate_const_block

\* The struct literal generate_go_data writes for a session: for every field
\* the text between its quotes, and the tags as written.
GoEntry(item) ==
    LET session == item.session
    IN  [day_key |-> item.day, room_key |-> item.room,
         Code |-> <<session.code>>,
         Title |-> EscapeGo(session.title),
         Speakers |-> [i \in 1..Len(session.speakers) |-> <<session.speakers[i]>>],
         Start |-> session.start, End |-> session.end,
         Track |-> EscapeGo(session.track),
         Abstract |-> EscapeGo(session.abstract),
         Language |-> session.language, Difficulty |-> session.difficulty,
         Room |-> session.room, Day |-> session.day, URL |-> <<session.url>>,
         Tags |-> TagConstantsOf(fetch_tag_map, session.tags)]

\* generate_go_data: the time in the header, and the entries under
\* sorted(days) and sorted(rooms); the rest of the file is fixed text.
generate_go_data(data, now) ==
    [generated |-> StrftimeNow(now),
     entries |-> [i \in 1..Len(EmissionOrder(data)) |-> GoEntry(EmissionOrder(data)[i])]]

\* The string an interpreted string literal of Go denotes, given the text
\* between its quotes: <<string>>, or <<>> when the file does not compile (a
\* bare quote or newline, an escape Go does not know).
RECURSIVE GoUnquote(_, _)
GoUnquote(s, chars) ==
    IF s = <<>> THEN <<chars>>
    ELSE IF Head(s) \in {"\"", "\n"} THEN <<>>
    ELSE IF Head(s) = "\\"
         THEN IF Len(s) < 2 THEN <<>>
              ELSE IF s[2] \in {"\"", "\\"} THEN GoUnquote(Tail(Tail(s)), Append(chars, s[2]))
              ELSE IF s[2] = "n" THEN GoUnquote(Tail(Tail(s)), Append(chars, "\n"))
              ELSE IF s[2] = "r" THEN GoUnquote(Tail(Tail(s)), Append(chars, "\r"))
              ELSE IF s[2] = "t" THEN GoUnquote(Tail(Tail(s)), Append(chars, "\t"))
              ELSE IF s[2] = "a" THEN GoUnquote(Tail(Tail(s)), Append(chars, "U+0007"))
              ELSE IF s[2] = "b" THEN GoUnquote(Tail(Tail(s)), Append(chars, "U+0008"))
              ELSE IF s[2] = "f" THEN GoUnquote(Tail(Tail(s)), Append(chars, "U+000C"))
              ELSE IF s[2] = "v" THEN GoUnquote(Tail(Tail(s)), Append(chars, "U+000B"))
              ELSE <<>>
    ELSE GoUnquote(Tail(s), Append(chars, Head(s)))

\* The literals of an entry all denote strings.
EntryCompiles(entry) ==
    /\ \A literal \in {entry.day_key, entry.room_key, entry.Code, entry.Title, entry.Start,
                       entry.End, entry.Track, entry.Abstract, entry.Language,
                       entry.Difficulty, entry.Room, entry.Day, entry.URL} :
           GoUnquote(literal, <<>>) # <<>>
    /\ \A i \in 1..Len(entry.Speakers) : GoUnquote(entry.Speakers[i], <<>>) # <<>>

\* The Session value Go builds of an entry that compiles; a constant of the
\* const block is its label.  (A tag outside the tag map is written as a
\* literal; classify_session_tags gives none.)
EntrySession(entry) ==
    [code |-> GoUnquote(entry.Code, <<>>)[1][1],
     title |-> GoUnquote(entry.Title, <<>>)[1],
     speakers |-> [i \in 1..Len(entry.Speakers) |-> GoUnquote(entry.Speakers[i], <<>>)[1][1]],
     start |-> GoUnquote(entry.Start, <<>>)[1],
     end |-> GoUnquote(entry.End, <<>>)[1],
     track |-> GoUnquote(entry.Track, <<>>)[1],
     abstract |-> GoUnquote(entry.Abstract, <<>>)[1],
     language |-> GoUnquote(entry.Language, <<>>)[1],
     difficulty |-> GoUnquote(entry.Difficulty, <<>>)[1],
     room |-> GoUnquote(entry.Room, <<>>)[1],
     day |-> GoUnquote(entry.Day, <<>>)[1],
     tags |-> [i \in 1..Len(entry.Tags) |->
                  IF entry.Tags[i] \in DOMAIN fetch_const_block
                  THEN fetch_const_block[entry.Tags[i]] ELSE entry.Tags[i]],
     url |-> GoUnquote(entry.URL, <<>>)[1][1]]

\* The map the entries denote: every session under the keys it is written
\* under, in the order of the file.
RECURSIVE EntriesData(_)
EntriesData(entries) ==
    IF entries = <<>> THEN EmptyDict
    ELSE LET before == EntriesData(SubSeq(entries, 1, Len(entries) - 1))
             entry == entries[Len(entries)]
             day == GoUnquote(entry.day_key, <<>>)[1]
             room == GoUnquote(entry.room_key, <<>>)[1]
             rooms_of_day == IF day \in DOMAIN before THEN before[day] ELSE EmptyDict
             bucket == IF room \in DOMAIN rooms_of_day THEN rooms_of_day[room] ELSE <<>>
             new_rooms == [r \in DOMAIN rooms_of_day \cup {room} |->
                             IF r = room THEN Append(bucket, EntrySession(entry))
                             ELSE rooms_of_day[r]]
         IN  [d \in DOMAIN before \cup {day} |-> IF d = day THEN new_rooms ELSE before[d]]

\* What Go reads of the file: <<the map>>, or <<>> when it does not compile.
ReadGoFile(file) ==
    IF \A i \in 1..Len(file.entries) : EntryCompiles(file.entries[i])
    THEN <<EntriesData(file.entries)>>
    ELSE <<>>

\* The inputs of the writers: aggregates of run with one session, whose
\* title and abstract hold ordinary characters, quotes, backslashes,
\* newlines and tabs, with two sessions of one room, and with none.
WriteTexts ==
    {<<>>,
     <<"a">>,
     <<"U+8B70", "U+7A0B">>,
     <<"a", "\"", "b", "\"">>,
     <<"a", "\n", "b">>,
     <<"a", "\t", "b">>,
     <<"a", "\r", "\n", "b">>,
     <<"C", ":", "\\", "t", "e", "m", "p">>,
     <<"a", "\\", "\\", "b">>,
     <<"a", "\\", "\"">>,
     <<"\\">>,
     <<"\\", "d">>}

WriteSubmission(code, title, abstract, hour) ==
    [code |-> code, title |-> title, abstract |-> abstract,
     speakers |-> <<"SPK001", "SPK404">>, track |-> 1,
     slots |-> <<[start |-> <<Timestamp(9, hour, 0, "+08:00")>>,
                  end |-> <<Timestamp(9, hour, 30, "+08:00")>>, room |-> 1]>>,
     answers |-> <<>>]

WriteSession(code, title, abstract, hour) ==
    process_session(WriteSubmission(code, title, abstract, hour),
                    PipelineSpeakers, PipelineRooms, PipelineTracks)[1]

WriteAggregates ==
    {EmptyDict}
    \cup {AddSession(EmptyDict, WriteSession("AB3DEF", title, abstract, 10)) :
             title \in WriteTexts, abstract \in {<<>>, <<"x", "\n", "y">>}}
    \cup {SortAggregate(AddSession(AddSession(EmptyDict, WriteSession("AB3DEF", title, <<>>, 11)),
                                   WriteSession("XYZ789", <<"b">>, <<>>, 10))) :
             title \in {<<"a">>, <<"\\">>}}

(***************************************************************************)
(* The inputs of the two Go writers: aggregates over two days ("Aug.10"    *)
(* sorts before "Aug.9"), two rooms, and a room of two sessions in either  *)
(* order, as run returns it and as a JSON file may hold it.                *)
(***************************************************************************)
EmitSubmission(code, title, day, hour, room) ==
    [code |-> code, title |-> title, abstract |-> <<>>,
     speakers |-> <<"SPK001">>, track |-> 1,
     slots |-> <<[start |-> <<Timestamp(day, hour, 0, "+08:00")>>,
                  end |-> <<Timestamp(day, hour, 30, "+08:00")>>, room |-> room]>>,
     answers |-> <<>>]

EmitSession(code, title, day, hour, room) ==
    process_session(EmitSubmission(code, title, day, hour, room),
                    PipelineSpeakers, PipelineRooms, PipelineTracks)[1]

EmitSessions ==
    <<EmitSession("JPADKC", <<"L","i","n","u","x">>, 9, 10, 1),
      EmitSession("AB3DEF", <<"R","u","s","t">>, 9, 9, 1),
      EmitSession("XYZ789", <<"O","p","e","n","i","n","g">>, 9, 10, 2),
      EmitSession("QRS456", <<"D","o","c","k","e","r">>, 10, 10, 1),
      EmitSession("LMN012", <<"T","a","l","k">>, 10, 9, 2)>>

\* The aggregate the loop of run builds of the sessions at the indices, taken
\* in that order.
RECURSIVE AggregateOf(_)
AggregateOf(indices) ==
    IF indices = <<>> THEN EmptyDict
    ELSE AddSession(AggregateOf(SubSeq(indices, 1, Len(indices) - 1)),
                    EmitSessions[indices[Len(indices)]])

\* The indices of a set, ascending.
RECURSIVE Ascending(_)
Ascending(S) ==
    IF S = {} THEN <<>>
    ELSE LET least == CHOOSE x \in S : \A y \in S : x <= y
         IN  <<least>> \o Ascending(S \ {least})

EmitAggregates ==
    {AggregateOf(Ascending(S)) : S \in SUBSET (1..Len(EmitSessions))}
    \cup {SortAggregate(AggregateOf(Ascending(S))) : S \in SUBSET (1..Len(EmitSessions))}

(***************************************************************************)
(* Aggregates that differ in the 'tags' fields only.                       *)
(***************************************************************************)
\* The aggregate with the tags of every session of the codes replaced.
Retagged(data, codes, tags) ==
    [d \in DOMAIN data |->
        [r \in DOMAIN data[d] |->
            [k \in 1..Len(data[d][r]) |->
                IF data[d][r][k].code \in codes
                THEN [data[d][r][k] EXCEPT !.tags = tags]
                ELSE data[d][r][k]]]]

\* The tags put in: none, a tag no rule would give the session, a label that
\* is no tag of the vocabulary.
RetagLists == {<<>>, <<TagGaming, TagSecurity>>, <<"security">>}

\* The sessions retagged: those the table has tags for, those it has none
\* for, and all.
RetagCodes == {{"JPADKC", "XYZ789"}, {"AB3DEF", "QRS456", "LMN012"},
               {"JPADKC", "AB3DEF", "XYZ789", "QRS456", "LMN012"}}

(***************************************************************************)
(* The state.                                                              *)
(***************************************************************************)
VARIABLES
    pc,                     \* where the pipeline is: "process", "sorted", "align", "done"
    submissions,            \* the submissions run has taken from the API's list so far
    sessions_by_day_room,   \* run's aggregate
    processed_count,        \* run's counter
    embedded_go,            \* the embedded_data.go on disk
    existing_tags,          \* align_data's table code -> tags
    stats,                  \* the statistics of generate_aligned_go_data
    go_entries,             \* the session entries generate_aligned_go_data has written
    tg_session,             \* SpecTags: the session to tag [code, track, title, abstract]
    tg_tags,                \* SpecTags: the tags each path gave it
    tg_done,                \* SpecTags: the paths that have run
    nm_submission,          \* SpecNorm: the submission given to process_session
    nm_result,              \* SpecNorm: what process_session returned
    nm_pc                   \* SpecNorm: "call" before the call, "returned" after

pipeline_vars == <<pc, submissions, sessions_by_day_room, processed_count, embedded_go,
                   existing_tags, stats, go_entries>>
tag_vars == <<tg_session, tg_tags, tg_done>>
norm_vars == <<nm_submission, nm_result, nm_pc>>

VARIABLES
    mn_pc,                  \* main: "idle", "run", "fetch", "process", "json", "go", "returned"
    mn_args,                \* main: the command line, [output_json, output_go]
    mn_api,                 \* the pretalx API: pages per endpoint, and the request that fails
    mn_endpoint,            \* run: the number of the fetch it is at (1..4)
    mn_url,                 \* fetch_paginated: url (<<>> is None)
    mn_params,              \* fetch_paginated: params (<<>> is None)
    mn_all_results,         \* fetch_paginated: all_results
    mn_requests,            \* the requests the API has received, in order
    mn_fetched,             \* run: what each finished fetch returned
    mn_sessions_data,       \* main: sessions_data (<<>> before run returns)
    mn_files,               \* the output files: <<>> when not written
    mn_exit                 \* main's exit status (<<>> while it runs)

main_vars == <<mn_pc, mn_args, mn_api, mn_endpoint, mn_url, mn_params, mn_all_results,
               mn_requests, mn_fetched, mn_sessions_data, mn_files, mn_exit>>

VARIABLES
    js_pc,                  \* fetch_sessions_from_js: "idle", "search", "parse", "repair", "returned", "raised"
    js_content,             \* the bundle the request returned
    js_str,                 \* json_str
    js_result,              \* what the function returned: <<>> is None
    js_reports,             \* what it has printed of failures
    wr_data,                \* the writers: the aggregate they are given
    wr_clock,               \* the seconds the clock showed when it was last read
    wr_json_files,          \* the JSON documents written of it, in order
    wr_go_files,            \* the Go files written of it, in order
    wr_loaded,              \* what json.load gave for the first document (<<>> before it)
    tw_pc,                  \* a second run of align_data on a retagged aggregate: as pc
    tw_data,                \* its aggregate
    tw_existing_tags,       \* its table code -> tags
    tw_stats,               \* its statistics
    tw_entries              \* the session entries it has written

js_vars == <<js_pc, js_content, js_str, js_result, js_reports>>
wr_vars == <<wr_data, wr_clock, wr_json_files, wr_go_files, wr_loaded>>
tw_vars == <<tw_pc, tw_data, tw_existing_tags, tw_stats, tw_entries>>
aux_vars == <<main_vars, js_vars, wr_vars, tw_vars>>
vars == <<pipeline_vars, tag_vars, norm_vars, aux_vars>>

\* The state of the pipeline before run's loop.
PipelineInit ==
    /\ pc = "process"
    /\ submissions = <<>>
    /\ sessions_by_day_room = EmptyDict
    /\ processed_count = 0
    /\ embedded_go = EmbeddedFile
    /\ existing_tags = EmptyDict
    /\ stats = InitialStats
    /\ go_entries = <<>>

\* No session is being tagged.
TagIdle ==
    /\ tg_session = [code |-> "", track |-> <<>>, title |-> <<>>, abstract |-> <<>>]
    /\ tg_tags = [classify |-> <<>>, align |-> <<>>, generate |-> <<>>]
    /\ tg_done = {}

\* No submission is being normalized.
NormIdle ==
    /\ nm_submission = <<>>
    /\ nm_result = <<>>
    /\ nm_pc = "idle"

\* main is not running.
MainIdle ==
    /\ mn_pc = "idle"
    /\ mn_args = [output_json |-> FALSE, output_go |-> FALSE]
    /\ mn_api = [pages |-> <<>>, fail |-> <<>>]
    /\ mn_endpoint = 0
    /\ mn_url = <<>>
    /\ mn_params = <<>>
    /\ mn_all_results = <<>>
    /\ mn_requests = <<>>
    /\ mn_fetched = <<>>
    /\ mn_sessions_data = <<>>
    /\ mn_files = [json |-> <<>>, go |-> <<>>]
    /\ mn_exit = <<>>

\* fetch_sessions_from_js is not running.
JsIdle ==
    /\ js_pc = "idle"
    /\ js_content = <<>>
    /\ js_str = <<>>
    /\ js_result = <<>>
    /\ js_reports = <<>>

\* Nothing is being written.
WriteIdle ==
    /\ wr_data = EmptyDict
    /\ wr_clock = 0
    /\ wr_json_files = <<>>
    /\ wr_go_files = <<>>
    /\ wr_loaded = <<>>

\* There is no second run.
TwinIdle ==
    /\ tw_pc = "idle"
    /\ tw_data = EmptyDict
    /\ tw_existing_tags = EmptyDict
    /\ tw_stats = InitialStats
    /\ tw_entries = <<>>

AuxIdle == MainIdle /\ JsIdle /\ WriteIdle /\ TwinIdle

Init == PipelineInit /\ TagIdle /\ NormIdle /\ AuxIdle

\* One iteration of run's loop over the submissions.
RunProcess ==
    /\ pc = "process"
    /\ Len(submissions) < MaxSubmissions
    /\ \E submission \in PipelineSubmissions(Len(submissions) + 1) :
         LET session == process_session(submission, PipelineSpeakers, PipelineRooms, PipelineTracks)
         IN  /\ submissions' = Append(submissions, submission)
             /\ IF session # <<>>
                THEN /\ sessions_by_day_room' = AddSession(sessions_by_day_room, session[1])
                     /\ processed_count' = processed_count + 1
                ELSE UNCHANGED <<sessions_by_day_room, processed_count>>
    /\ UNCHANGED <<pc, embedded_go, existing_tags, stats, go_entries>>
    /\ UNCHANGED <<tag_vars, norm_vars, aux_vars>>

\* The list is exhausted: run sorts every bucket and returns the aggregate.
RunSort ==
    /\ pc = "process"
    /\ sessions_by_day_room' = SortAggregate(sessions_by_day_room)
    /\ pc' = "sorted"
    /\ UNCHANGED <<submissions, processed_count, embedded_go, existing_tags, stats, go_entries>>
    /\ UNCHANGED <<tag_vars, norm_vars, aux_vars>>

\* align_data.main loads the aggregate and the existing tags, and
\* generate_aligned_go_data starts.
AlignStart ==
    /\ pc = "sorted"
    /\ existing_tags' = load_existing_tags_mapping(embedded_go)
    /\ stats' = InitialStats
    /\ go_entries' = <<>>
    /\ pc' = "align"
    /\ UNCHANGED <<submissions, sessions_by_day_room, processed_count, embedded_go>>
    /\ UNCHANGED <<tag_vars, norm_vars, aux_vars>>

\* One iteration of the innermost loop of generate_aligned_go_data.
AlignEmit ==
    /\ pc = "align"
    /\ Len(go_entries) < Len(EmissionOrder(sessions_by_day_room))
    /\ LET item == EmissionOrder(sessions_by_day_room)[Len(go_entries) + 1]
       IN  /\ stats' = NextStats(stats, item.session, existing_tags)
           /\ go_entries' = Append(go_entries, AlignedEntry(item, existing_tags))
    /\ UNCHANGED <<pc, submissions, sessions_by_day_room, processed_count, embedded_go, existing_tags>>
    /\ UNCHANGED <<tag_vars, norm_vars, aux_vars>>

\* The loops are over: generate_aligned_go_data returns.
AlignReturn ==
    /\ pc = "align"
    /\ Len(go_entries) = Len(EmissionOrder(sessions_by_day_room))
    /\ pc' = "done"
    /\ UNCHANGED <<submissions, sessions_by_day_room, processed_count, embedded_go,
                   existing_tags, stats, go_entries>>
    /\ UNCHANGED <<tag_vars, norm_vars, aux_vars>>

Next == RunProcess \/ RunSort \/ AlignStart \/ AlignEmit \/ AlignReturn

\* The pipeline: run, then the alignment of its aggregate.
Spec == Init /\ [][Next]_vars

(***************************************************************************)
(* SpecTags: one session, tagged by each of the three paths.               *)
(***************************************************************************)
\* Any session of the input sets; the existing tags are those of the
\* embedded_data.go, as align_data.main loads them.
TagInit ==
    /\ tg_session \in [code : TagCodes, track : TagTracks, title : TagTitles, abstract : TagAbstracts]
    /\ tg_tags = [classify |-> <<>>, align |-> <<>>, generate |-> <<>>]
    /\ tg_done = {}
    /\ PipelineInit
    /\ NormIdle
    /\ AuxIdle

\* process_session classifies the session (the track is the resolved name).
TagClassify ==
    /\ "classify" \notin tg_done
    /\ tg_tags' = [tg_tags EXCEPT !.classify =
                      classify_session_tags(tg_session.track, tg_session.title, tg_session.abstract)]
    /\ tg_done' = tg_done \cup {"classify"}
    /\ UNCHANGED <<tg_session, pipeline_vars, norm_vars, aux_vars>>

\* generate_aligned_go_data chooses the tags of the session, as process_session
\* stored it.
TagAlign ==
    /\ "align" \notin tg_done
    /\ tg_tags' = [tg_tags EXCEPT !.align =
                      AlignedTags([tg_session EXCEPT !.abstract = TruncateAbstract(@)],
                                  load_existing_tags_mapping(embedded_go))]
    /\ tg_done' = tg_done \cup {"align"}
    /\ UNCHANGED <<tg_session, pipeline_vars, norm_vars, aux_vars>>

\* generate_go_file tags the session with generate_tags.
TagGenerate ==
    /\ "generate" \notin tg_done
    /\ tg_tags' = [tg_tags EXCEPT !.generate = generate_tags(tg_session)]
    /\ tg_done' = tg_done \cup {"generate"}
    /\ UNCHANGED <<tg_session, pipeline_vars, norm_vars, aux_vars>>

TagNext == TagClassify \/ TagAlign \/ TagGenerate

SpecTags == TagInit /\ [][TagNext]_vars

(***************************************************************************)
(* SpecNorm: process_session on one submission.                            *)
(***************************************************************************)
NormInit ==
    /\ nm_submission \in NormSubmissions \cup NormTextSubmissions
    /\ nm_result = <<>>
    /\ nm_pc = "call"
    /\ PipelineInit
    /\ TagIdle
    /\ AuxIdle

\* The call of process_session.
NormProcess ==
    /\ nm_pc = "call"
    /\ nm_result' = process_session(nm_submission, NormSpeakers, NormRooms, NormTracks)
    /\ nm_pc' = "returned"
    /\ UNCHANGED <<nm_submission, pipeline_vars, tag_vars, aux_vars>>

NormNext == NormProcess

SpecNorm == NormInit /\ [][NormNext]_vars

(***************************************************************************)
(* SpecMain: main of fetch_pretalx_data, from the four fetches to the      *)
(* output files and the exit status.                                       *)
(***************************************************************************)
MainInit ==
    /\ mn_pc = "run"
    /\ mn_args \in [output_json : BOOLEAN, output_go : BOOLEAN]
    /\ mn_api \in Apis
    /\ mn_endpoint = 1
    /\ mn_url = <<>>
    /\ mn_params = <<>>
    /\ mn_all_results = <<>>
    /\ mn_requests = <<>>
    /\ mn_fetched = <<>>
    /\ mn_sessions_data = <<>>
    /\ mn_files = [json |-> <<>>, go |-> <<>>]
    /\ mn_exit = <<>>
    /\ PipelineInit
    /\ TagIdle
    /\ NormIdle
    /\ JsIdle
    /\ WriteIdle
    /\ TwinIdle

\* run calls its next fetch, and fetch_paginated sets out from the endpoint's
\* URL.
FetchCall ==
    /\ mn_pc = "run"
    /\ mn_endpoint <= Len(Endpoints)
    /\ mn_url' = <<EndpointUrl(Endpoints[mn_endpoint])>>
    /\ mn_params' = EndpointParams(Endpoints[mn_endpoint])
    /\ mn_all_results' = <<>>
    /\ mn_pc' = "fetch"
    /\ UNCHANGED <<mn_args, mn_api, mn_endpoint, mn_requests, mn_fetched,
                   mn_sessions_data, mn_files, mn_exit>>
    /\ UNCHANGED <<pipeline_vars, tag_vars, norm_vars, js_vars, wr_vars, tw_vars>>

\* The request fetch_paginated sends for its url: the params go with the
\* endpoint's URL only.
PageRequest ==
    [url |-> mn_url[1],
     params |-> IF mn_url[1] = EndpointUrl(Endpoints[mn_endpoint]) THEN mn_params ELSE <<>>]

\* A variant of FetchPage: the 'next' link of the response is not followed.
FetchPage_FirstPageOnly ==
    /\ mn_pc = "fetch"
    /\ mn_url # <<>>
    /\ LET response == ApiResponse(mn_api, mn_url[1])
       IN  /\ response.ok
           /\ mn_requests' = Append(mn_requests, PageRequest)
           /\ mn_all_results' = mn_all_results \o response.results
           /\ mn_url' = <<>>
           /\ mn_params' = <<>>
    /\ UNCHANGED <<mn_pc, mn_args, mn_api, mn_endpoint, mn_fetched,
                   mn_sessions_data, mn_files, mn_exit>>
    /\ UNCHANGED <<pipeline_vars, tag_vars, norm_vars, js_vars, wr_vars, tw_vars>>

\* One iteration of fetch_paginated's loop, the request succeeding.
FetchPage ==
    /\ mn_pc = "fetch"
    /\ mn_url # <<>>
    /\ LET response == ApiResponse(mn_api, mn_url[1])
       IN  /\ response.ok
           /\ mn_requests' = Append(mn_requests, PageRequest)
           /\ mn_all_results' = mn_all_results \o response.results
           /\ mn_url' = response.next
           /\ mn_params' = <<>>
    /\ UNCHANGED <<mn_pc, mn_args, mn_api, mn_endpoint, mn_fetched,
                   mn_sessions_data, mn_files, mn_exit>>
    /\ UNCHANGED <<pipeline_vars, tag_vars, norm_vars, js_vars, wr_vars, tw_vars>>

\* A variant of FetchFail: the failed request is taken for an empty last page.
FetchFail_Ignored ==
    /\ mn_pc = "fetch"
    /\ mn_url # <<>>
    /\ ~ApiResponse(mn_api, mn_url[1]).ok
    /\ mn_requests' = Append(mn_requests, PageRequest)
    /\ mn_url' = <<>>
    /\ mn_params' = <<>>
    /\ UNCHANGED <<mn_pc, mn_all_results, mn_args, mn_api, mn_endpoint, mn_fetched,
                   mn_sessions_data, mn_files, mn_exit>>
    /\ UNCHANGED <<pipeline_vars, tag_vars, norm_vars, js_vars, wr_vars, tw_vars>>

\* The request fails: raise_for_status raises, nothing between the loop and
\* main catches it, and main's handler returns 1.
FetchFail ==
    /\ mn_pc = "fetch"
    /\ mn_url # <<>>
    /\ ~ApiResponse(mn_api, mn_url[1]).ok
    /\ mn_requests' = Append(mn_requests, PageRequest)
    /\ mn_exit' = <<1>>
    /\ mn_pc' = "returned"
    /\ UNCHANGED <<mn_url, mn_params, mn_all_results, mn_args, mn_api, mn_endpoint,
                   mn_fetched, mn_sessions_data, mn_files>>
    /\ UNCHANGED <<pipeline_vars, tag_vars, norm_vars, js_vars, wr_vars, tw_vars>>

\* url is None: fetch_paginated returns all_results, and run goes on to its
\* next fetch.
FetchReturn ==
    /\ mn_pc = "fetch"
    /\ mn_url = <<>>
    /\ mn_fetched' = Append(mn_fetched, mn_all_results)
    /\ mn_endpoint' = mn_endpoint + 1
    /\ mn_pc' = "run"
    /\ UNCHANGED <<mn_url, mn_params, mn_all_results, mn_args, mn_api, mn_requests,
                   mn_sessions_data, mn_files, mn_exit>>
    /\ UNCHANGED <<pipeline_vars, tag_vars, norm_vars, js_vars, wr_vars, tw_vars>>

\* The four fetches are done: run processes and sorts, and returns the
\* aggregate to main.
MainProcess ==
    /\ mn_pc = "run"
    /\ mn_endpoint > Len(Endpoints)
    /\ mn_sessions_data' = <<run(mn_fetched)>>
    /\ mn_pc' = "json"
    /\ UNCHANGED <<mn_url, mn_params, mn_all_results, mn_args, mn_api, mn_endpoint,
                   mn_requests, mn_fetched, mn_files, mn_exit>>
    /\ UNCHANGED <<pipeline_vars, tag_vars, norm_vars, js_vars, wr_vars, tw_vars>>

\* main writes the JSON file when --output-json is given.
MainWriteJson ==
    /\ mn_pc = "json"
    /\ mn_files' = IF mn_args.output_json THEN [mn_files EXCEPT !.json = mn_sessions_data]
                   ELSE mn_files
    /\ mn_pc' = "go"
    /\ UNCHANGED <<mn_url, mn_params, mn_all_results, mn_args, mn_api, mn_endpoint,
                   mn_requests, mn_fetched, mn_sessions_data, mn_exit>>
    /\ UNCHANGED <<pipeline_vars, tag_vars, norm_vars, js_vars, wr_vars, tw_vars>>

\* main writes the Go file when --output-go is given, verifies, and returns 0.
MainWriteGo ==
    /\ mn_pc = "go"
    /\ mn_files' = IF mn_args.output_go THEN [mn_files EXCEPT !.go = mn_sessions_data]
                   ELSE mn_files
    /\ mn_exit' = <<0>>
    /\ mn_pc' = "returned"
    /\ UNCHANGED <<mn_url, mn_params, mn_all_results, mn_args, mn_api, mn_endpoint,
                   mn_requests, mn_fetched, mn_sessions_data>>
    /\ UNCHANGED <<pipeline_vars, tag_vars, norm_vars, js_vars, wr_vars, tw_vars>>

MainNext ==
    \/ FetchCall \/ FetchPage \/ FetchFail \/ FetchReturn
    \/ MainProcess \/ MainWriteJson \/ MainWriteGo

SpecMain == MainInit /\ [][MainNext]_vars

\* A step of fetch_paginated after its entry: a request, or the return.
FetchStep == FetchPage \/ FetchFail \/ FetchReturn

\* fetch_paginated is sequential code: a call of it that can take a step is
\* not put off for ever.
SpecMainFair == SpecMain /\ WF_vars(FetchStep)

(***************************************************************************)
(* SpecJs: fetch_sessions_from_js, from the bundle the request returned to *)
(* what the function returns.                                              *)
(***************************************************************************)
JsInit ==
    /\ js_pc = "search"
    /\ js_content \in Bundles
    /\ js_str = <<>>
    /\ js_result = <<>>
    /\ js_reports = <<>>
    /\ PipelineInit
    /\ TagIdle
    /\ NormIdle
    /\ MainIdle
    /\ WriteIdle
    /\ TwinIdle

\* The two searches: the payload of the first pattern, of the second when
\* the first does not match, or the report that there is none and None.
JsSearch ==
    /\ js_pc = "search"
    /\ LET first_match == SearchPayload(js_content)
           json_match == IF first_match # <<>> THEN first_match
                         ELSE SearchAssignedPayload(js_content)
       IN  IF json_match # <<>>
           THEN /\ js_str' = json_match[1]
                /\ js_pc' = "parse"
                /\ UNCHANGED js_reports
           ELSE /\ js_reports' = Append(js_reports, [failure |-> "no JSON data", preview |-> <<>>])
                /\ js_pc' = "returned"
                /\ UNCHANGED js_str
    /\ UNCHANGED <<js_content, js_result>>
    /\ UNCHANGED <<pipeline_vars, tag_vars, norm_vars, main_vars, wr_vars, tw_vars>>

\* The first pass and json.loads: the data is returned; or the handler of
\* JSONDecodeError prints the error and goes on to the second pass; or, the
\* exception being another one, it leaves the function.
JsParse ==
    /\ js_pc = "parse"
    /\ LET normalized == NormalizeEscapes(js_str)
           loaded == json_loads(normalized)
       IN  /\ js_str' = normalized
           /\ IF loaded.status = "ok"
              THEN /\ js_result' = <<loaded.value>>
                   /\ js_pc' = "returned"
                   /\ UNCHANGED js_reports
              ELSE IF loaded.status = "JSONDecodeError"
              THEN /\ js_reports' = Append(js_reports, [failure |-> "JSON parse error", preview |-> <<>>])
                   /\ js_pc' = "repair"
                   /\ UNCHANGED js_result
              ELSE /\ js_pc' = "raised"
                   /\ UNCHANGED <<js_result, js_reports>>
    /\ UNCHANGED js_content
    /\ UNCHANGED <<pipeline_vars, tag_vars, norm_vars, main_vars, wr_vars, tw_vars>>

\* The preview the function prints: the first 500 characters of json_str.
PreviewLength == 500

Preview(json_str) ==
    SubSeq(json_str, 1, IF Len(json_str) < PreviewLength THEN Len(json_str) ELSE PreviewLength)

\* The second pass and json.loads: the data is returned; or, whatever the
\* exception, the failure and the preview are printed and None is returned.
JsRepair ==
    /\ js_pc = "repair"
    /\ LET loaded == json_loads(StripBackslashes(js_str))
       IN  IF loaded.status = "ok"
           THEN /\ js_result' = <<loaded.value>>
                /\ UNCHANGED js_reports
           ELSE /\ js_reports' = Append(js_reports, [failure |-> "deep repair failed",
                                                     preview |-> Preview(js_str)])
                /\ UNCHANGED js_result
    /\ js_pc' = "returned"
    /\ UNCHANGED <<js_content, js_str>>
    /\ UNCHANGED <<pipeline_vars, tag_vars, norm_vars, main_vars, wr_vars, tw_vars>>

JsNext == JsSearch \/ JsParse \/ JsRepair

SpecJs == JsInit /\ [][JsNext]_vars

(***************************************************************************)
(* SpecWrite: main's two writers on one aggregate, run more than once, and *)
(* json.load on the document (the read of align_data's main).              *)
(***************************************************************************)
\* How many times each file is written.
MaxWrites == 2

WriteInit ==
    /\ wr_data \in WriteAggregates
    /\ wr_clock = 0
    /\ wr_json_files = <<>>
    /\ wr_go_files = <<>>
    /\ wr_loaded = <<>>
    /\ PipelineInit
    /\ TagIdle
    /\ NormIdle
    /\ MainIdle
    /\ JsIdle
    /\ TwinIdle

\* main with --output-json: json.dump of the aggregate to the file.
WriteJson ==
    /\ Len(wr_json_files) < MaxWrites
    /\ wr_json_files' = Append(wr_json_files, json_dump(wr_data))
    /\ UNCHANGED <<wr_data, wr_clock, wr_go_files, wr_loaded>>
    /\ UNCHANGED <<pipeline_vars, tag_vars, norm_vars, main_vars, js_vars, tw_vars>>

\* main with --output-go: generate_go_data at the time the clock shows, which
\* is not before that of an earlier write.
WriteGo ==
    /\ Len(wr_go_files) < MaxWrites
    /\ \E now \in wr_clock..MaxSeconds :
        /\ wr_clock' = now
        /\ wr_go_files' = Append(wr_go_files, generate_go_data(wr_data, now))
    /\ UNCHANGED <<wr_data, wr_json_files, wr_loaded>>
    /\ UNCHANGED <<pipeline_vars, tag_vars, norm_vars, main_vars, js_vars, tw_vars>>

\* json.load of the first document written.
LoadJson ==
    /\ wr_json_files # <<>>
    /\ wr_loaded = <<>>
    /\ json_loads(wr_json_files[1]).status = "ok"
    /\ wr_loaded' = <<json_loads(wr_json_files[1]).value>>
    /\ UNCHANGED <<wr_data, wr_clock, wr_json_files, wr_go_files>>
    /\ UNCHANGED <<pipeline_vars, tag_vars, norm_vars, main_vars, js_vars, tw_vars>>

WriteNext == WriteJson \/ WriteGo \/ LoadJson

SpecWrite == WriteInit /\ [][WriteNext]_vars

(***************************************************************************)
(* SpecEmit: the two Go writers on one aggregate: generate_go_data as main *)
(* calls it, and generate_aligned_go_data on the same aggregate loaded.    *)
(***************************************************************************)
EmitInit ==
    /\ sessions_by_day_room \in EmitAggregates
    /\ wr_data = sessions_by_day_room
    /\ pc = "sorted"
    /\ submissions = <<>>
    /\ processed_count = 0
    /\ embedded_go = EmbeddedFile
    /\ existing_tags = EmptyDict
    /\ stats = InitialStats
    /\ go_entries = <<>>
    /\ wr_clock = 0
    /\ wr_json_files = <<>>
    /\ wr_go_files = <<>>
    /\ wr_loaded = <<>>
    /\ TagIdle
    /\ NormIdle
    /\ MainIdle
    /\ JsIdle
    /\ TwinIdle

EmitNext == WriteGo \/ AlignStart \/ AlignEmit \/ AlignReturn

SpecEmit == EmitInit /\ [][EmitNext]_vars

(***************************************************************************)
(* SpecTwin: align_data run on an aggregate, and run on the same aggregate *)
(* with other 'tags' fields, against the same embedded_data.go.            *)
(***************************************************************************)
TwinInit ==
    /\ sessions_by_day_room \in {data \in EmitAggregates : data # EmptyDict}
    /\ \E codes \in RetagCodes, tags \in RetagLists :
           tw_data = Retagged(sessions_by_day_room, codes, tags)
    /\ pc = "sorted"
    /\ tw_pc = "sorted"
    /\ submissions = <<>>
    /\ processed_count = 0
    /\ embedded_go = EmbeddedFile
    /\ existing_tags = EmptyDict
    /\ stats = InitialStats
    /\ go_entries = <<>>
    /\ tw_existing_tags = EmptyDict
    /\ tw_stats = InitialStats
    /\ tw_entries = <<>>
    /\ TagIdle
    /\ NormIdle
    /\ MainIdle
    /\ JsIdle
    /\ WriteIdle

\* AlignStart, AlignEmit and AlignReturn, for the second run.
TwinStart ==
    /\ tw_pc = "sorted"
    /\ tw_existing_tags' = load_existing_tags_mapping(embedded_go)
    /\ tw_stats' = InitialStats
    /\ tw_entries' = <<>>
    /\ tw_pc' = "align"
    /\ UNCHANGED tw_data
    /\ UNCHANGED <<pipeline_vars, tag_vars, norm_vars, main_vars, js_vars, wr_vars>>

TwinEmit ==
    /\ tw_pc = "align"
    /\ Len(tw_entries) < Len(EmissionOrder(tw_data))
    /\ LET item == EmissionOrder(tw_data)[Len(tw_entries) + 1]
       IN  /\ tw_stats' = NextStats(tw_stats, item.session, tw_existing_tags)
           /\ tw_entries' = Append(tw_entries, AlignedEntry(item, tw_existing_tags))
    /\ UNCHANGED <<tw_pc, tw_data, tw_existing_tags>>
    /\ UNCHANGED <<pipeline_vars, tag_vars, norm_vars, main_vars, js_vars, wr_vars>>

TwinReturn ==
    /\ tw_pc = "align"
    /\ Len(tw_entries) = Len(EmissionOrder(tw_data))
    /\ tw_pc' = "done"
    /\ UNCHANGED <<tw_data, tw_existing_tags, tw_stats, tw_entries>>
    /\ UNCHANGED <<pipeline_vars, tag_vars, norm_vars, main_vars, js_vars, wr_vars>>

TwinNext ==
    \/ AlignStart \/ AlignEmit \/ AlignReturn
    \/ TwinStart \/ TwinEmit \/ TwinReturn

SpecTwin == TwinInit /\ [][TwinNext]_vars

(***************************************************************************)
(* Properties of the pipeline (specification Spec).                        *)
(***************************************************************************)
\* The session process_session gives a submission of the pipeline, or None.
PipelineSession(submission) ==
    process_session(submission, PipelineSpeakers, PipelineRooms, PipelineTracks)

\* The buckets of the aggregate, as (day, room) pairs.
Buckets == UNION {{<<d, r>> : r \in DOMAIN sessions_by_day_room[d]} : d \in DOMAIN sessions_by_day_room}

Bucket(b) == sessions_by_day_room[b[1]][b[2]]

\* The places (bucket, index) of the aggregate that hold a session of a code.
PlacesOf(code) ==
    UNION {{<<b, k>> : k \in {n \in 1..Len(Bucket(b)) : Bucket(b)[n].code = code}} : b \in Buckets}

\* The position of a code in the order run took the submissions.
PositionOf(code) == CHOOSE i \in 1..Len(submissions) : submissions[i].code = code

\* All the places (bucket, index) of the aggregate.
Places == UNION {{<<b, k>> : k \in 1..Len(Bucket(b))} : b \in Buckets}

\* C2: in generate_aligned_go_data, every session whose code is a key of the
\* existing-tags table is written with exactly the table's tags, in the
\* table's order, whatever its track, title and abstract; every other session
\* is written with the tags of generate_fallback_tags.
C2_OverridePrecedence ==
    pc \in {"align", "done"} =>
        \A k \in 1..Len(go_entries) :
            LET entry == go_entries[k]
                session == EmissionOrder(sessions_by_day_room)[k].session
                labels == [i \in 1..Len(entry.Tags) |->
                              IF entry.Tags[i] \in DOMAIN load_tag_map
                              THEN load_tag_map[entry.Tags[i]] ELSE entry.Tags[i]]
            IN  /\ entry.Code = session.code
                /\ IF entry.Code \in DOMAIN existing_tags
                   THEN labels = existing_tags[entry.Code]
                   ELSE labels = generate_fallback_tags(session)

\* Witness of C2: the writer is done, having written a session of a known code
\* whose keyword classification differs from the table's tags, and a session
\* of an unknown code.
C2_Witness ==
    /\ pc = "done"
    /\ \E k \in 1..Len(go_entries) :
         /\ go_entries[k].Code \in DOMAIN existing_tags
         /\ generate_fallback_tags(EmissionOrder(sessions_by_day_room)[k].session)
              # existing_tags[go_entries[k].Code]
         /\ go_entries[k].Tags = <<"TagVehicle", "TagHardware">>
    /\ \E k \in 1..Len(go_entries) : go_entries[k].Code \notin DOMAIN existing_tags

\* C3: a submission with no slots, or whose slot lacks a start, an end or a
\* room, gives no session, and nothing of it is in the aggregate: no bucket
\* holds a session of its code and the counter did not count it.
C3_SkipOnMissingSlot ==
    /\ \A i \in 1..Len(submissions) :
         ~CompleteSlots(submissions[i].slots) =>
            /\ PipelineSession(submissions[i]) = <<>>
            /\ PlacesOf(submissions[i].code) = {}
    /\ processed_count = Cardinality({i \in 1..Len(submissions) : CompleteSlots(submissions[i].slots)})

\* Witness of C3: run has returned after taking a submission without slots, one
\* whose slot has no room and a complete one.
C3_Witness ==
    /\ pc = "sorted"
    /\ \E i, j, k \in 1..Len(submissions) :
         /\ submissions[i].slots = <<>>
         /\ submissions[j].slots # <<>> /\ submissions[j].slots[1].room = 0
         /\ CompleteSlots(submissions[k].slots)
    /\ processed_count = 1

\* C4: in the aggregate run returns, every bucket is sorted by start,
\* non-decreasing, and sessions of equal start are in the order their
\* submissions were processed.
C4_SortedStable ==
    pc # "process" =>
        \A b \in Buckets :
            \A k, l \in 1..Len(Bucket(b)) :
                k < l =>
                    /\ ~StrLess(Bucket(b)[l].start, Bucket(b)[k].start)
                    /\ Bucket(b)[k].start = Bucket(b)[l].start =>
                           PositionOf(Bucket(b)[k].code) < PositionOf(Bucket(b)[l].code)

\* Witness of C4: run has returned a bucket of three sessions, the first
\* processed starting at 10:00 and now last, the two others of equal start.
C4_Witness ==
    /\ pc = "sorted"
    /\ \E b \in Buckets :
         /\ Len(Bucket(b)) = 3
         /\ Bucket(b)[1].start = <<"0","9",":","3","0">>
         /\ Bucket(b)[2].start = <<"0","9",":","3","0">>
         /\ Bucket(b)[3].start = <<"1","0",":","0","0">>
         /\ PositionOf(Bucket(b)[3].code) = 1

\* C5: when run returns, every submission that gave a session is in the
\* aggregate exactly once, in the bucket of the session's day and room, and
\* the buckets hold as many sessions as there are such submissions.
C5_NoSessionLostOrDuplicated ==
    pc = "sorted" =>
        LET results == [i \in 1..Len(submissions) |-> PipelineSession(submissions[i])]
        IN  /\ \A i \in 1..Len(submissions) :
                 results[i] # <<>> =>
                    /\ Cardinality(PlacesOf(submissions[i].code)) = 1
                    /\ \A p \in PlacesOf(submissions[i].code) :
                          /\ p[1] = <<results[i][1].day, results[i][1].room>>
                          /\ Bucket(p[1])[p[2]] = results[i][1]
            /\ Cardinality(Places) = Cardinality({i \in 1..Len(submissions) : results[i] # <<>>})

\* Witness of C5: run has returned three sessions, two of them in one bucket
\* and one in a bucket of another day.
C5_Witness ==
    /\ pc = "sorted"
    /\ processed_count = 3
    /\ Cardinality(DOMAIN sessions_by_day_room) = 2
    /\ \E b \in Buckets : Len(Bucket(b)) = 2

(***************************************************************************)
(* Properties of the classifiers (specification SpecTags).                 *)
(***************************************************************************)
\* The text both keyword classifiers read for the session being tagged.
TagText == ClassifierText(tg_session.track, tg_session.title, tg_session.abstract)

\* The rules of a table with at least one keyword in the text.
FiringRules(rules, text) ==
    {i \in 1..Len(rules) :
        \E j \in 1..Len(rules[i].keywords) : IsSubstring(rules[i].keywords[j], text)}

\* The rule of a table that appends a tag.
RuleOf(rules, tag) == CHOOSE i \in 1..Len(rules) : rules[i].tag = tag

\* The session being tagged has no existing tags: align_data classifies it.
TagUsesFallback == tg_session.code \notin DOMAIN load_existing_tags_mapping(embedded_go)

\* C1: every path gives the session at least one tag: classify_session_tags in
\* process_session, the existing tags or generate_fallback_tags in
\* generate_aligned_go_data, and generate_tags in generate_go_file.
C1_TagsNeverEmpty ==
    \A path \in tg_done : Len(tg_tags[path]) >= 1

\* Witness of C1: the three paths have tagged a session on which no keyword
\* rule of the two classifiers fires and whose code has no existing tags.
C1_Witness ==
    /\ tg_done = TagPaths
    /\ TagUsesFallback
    /\ FiringRules(classify_rules, TagText) = {}
    /\ FiringRules(fallback_rules, TagText) = {}
    /\ tg_tags.classify = <<TagSystem>>

\* The result of a classifier is the tags of the firing rules: one per firing
\* rule, none of another rule, in the order of the rules.
TagsOfFiringRules(rules, text, result) ==
    LET firing == FiringRules(rules, text)
    IN  firing # {} =>
            /\ Len(result) = Cardinality(firing)
            /\ \A i \in firing : Cardinality({p \in 1..Len(result) : result[p] = rules[i].tag}) = 1
            /\ \A p, q \in 1..Len(result) :
                  p < q => RuleOf(rules, result[p]) < RuleOf(rules, result[q])

\* C6: in classify_session_tags and generate_fallback_tags a rule fires exactly
\* when one of its keywords is a substring of the lowercased text; every firing
\* rule gives its tag once, and the tags are in the order of the rules.
C6_FiringRulesInOrder ==
    /\ "classify" \in tg_done => TagsOfFiringRules(classify_rules, TagText, tg_tags.classify)
    /\ ("align" \in tg_done /\ TagUsesFallback) =>
           TagsOfFiringRules(fallback_rules, TagText, tg_tags.align)

\* Witness of C6: 'Learning Go with ChatGPT' under track 'General': the keywords
\* occur in the order learning, go, chat(gpt), the tags are in rule order.
C6_Witness ==
    /\ tg_done = TagPaths
    /\ TagUsesFallback
    /\ tg_session.track = <<"G","e","n","e","r","a","l">>
    /\ tg_tags.classify = <<TagAI, TagLanguages, TagEducation, TagSocial>>
    /\ tg_tags.align = <<TagLanguages, TagSocial>>

\* The default is the result exactly when no rule fires; else the result has
\* the tag of every firing rule and not Keynote.
DefaultOnlyWhenNoRuleFires(rules, text, result) ==
    LET firing == FiringRules(rules, text)
        keynote == \/ IsSubstring(<<"k","e","y","n","o","t","e">>, text)
                   \/ IsSubstring(<<"o","p","e","n","i","n","g">>, text)
    IN  /\ firing = {} => result = IF keynote THEN <<TagKeynote>> ELSE <<TagSystem>>
        /\ firing # {} =>
              /\ \A i \in firing : \E p \in 1..Len(result) : result[p] = rules[i].tag
              /\ \A p \in 1..Len(result) : result[p] # TagKeynote

RawAnswer(question_id) ==
    LET answers == nm_submission.answers
        hits == {i \in 1..Len(answers) : answers[i].question = question_id}
    IN  IF hits = {} THEN <<>>
        ELSE <<answers[CHOOSE i \in hits : \A j \in hits : i <= j].answer>>

\* A field of the session is the answer, mapped when the table has it and
\* verbatim when not.
MappedOrVerbatim(raw, table, field) ==
    raw # <<>> => field = IF raw[1] \in DOMAIN table THEN table[raw[1]] ELSE raw[1]

\* C8, as claimed: a difficulty or language answer of the table is replaced by
\* its display string, and every answer outside the table is in the session
\* unchanged.
C8_VerbatimPassThrough ==
    (nm_pc = "returned" /\ nm_result # <<>>) =>
        /\ MappedOrVerbatim(RawAnswer(59), difficulty_map, nm_result[1].difficulty)
        /\ MappedOrVerbatim(RawAnswer(57), language_map, nm_result[1].language)

\* A field of the session is the stripped answer, mapped when the table has
\* it, and the default when there is no answer or a blank one.
MappedOrStripped(raw, table, default, field) ==
    LET value == IF raw = <<>> THEN <<>> ELSE Strip(raw[1])
    IN  field = IF value = <<>> THEN default
                ELSE IF value \in DOMAIN table THEN table[value]
                ELSE value

\* C8, amended: the answer is stripped of surrounding whitespace; a stripped
\* answer of the table is replaced by its display string, any other non-empty
\* one is in the session as stripped, and a missing or blank answer gives the
\* default; no answer makes process_session skip the submission.
C8_StrippedPassThrough ==
    nm_pc = "returned" =>
        /\ nm_result # <<>> <=> CompleteSlots(nm_submission.slots)
        /\ nm_result # <<>> =>
              /\ MappedOrStripped(RawAnswer(59), difficulty_map, <<"U+5165","U+9580">>,
                                  nm_result[1].difficulty)
              /\ MappedOrStripped(RawAnswer(57), language_map, <<"U+6F22","U+8A9E">>,
                                  nm_result[1].language)

\* Witness of C8: the answers ' Expert' and 'Taiwanese' are in the session as
\* 'Expert' and 'Taiwanese'.
C8_Witness ==
    /\ nm_pc = "returned"
    /\ nm_result # <<>>
    /\ RawAnswer(59) = << <<" ","E","x","p","e","r","t">> >>
    /\ nm_result[1].difficulty = <<"E","x","p","e","r","t">>
    /\ nm_result[1].language = <<"T","a","i","w","a","n","e","s","e">>

\* The offset of Taiwan time from UTC, in minutes.
TaiwanUtcOffset == 480

\* The wall clock in Taiwan at the instant a timestamp denotes.
TaiwanTime(ts) ==
    LET offset == IF ts.tz = "Z" THEN 0 ELSE UtcOffset[ts.tz]
        minutes == ts.day * 1440 + ts.hour * 60 + ts.minute - offset + TaiwanUtcOffset
    IN  [day |-> minutes \div 1440, hour |-> (minutes % 1440) \div 60, minute |-> minutes % 60]

\* C9: the start, the end and the day of a session are those of the slot's
\* instants in Taiwan time (UTC+8), whatever UTC offset the slot is written
\* with.
C9_UniformTaiwanTime ==
    (nm_pc = "returned" /\ nm_result # <<>>) =>
        LET slot == nm_submission.slots[1]
        IN  /\ nm_result[1].start = StrftimeHM(TaiwanTime(slot.start[1]))
            /\ nm_result[1].end = StrftimeHM(TaiwanTime(slot.end[1]))
            /\ nm_result[1].day = <<"A","u","g",".">> \o Digits(TaiwanTime(slot.start[1]).day)

\* C10: every session has a non-empty room and a non-empty track: the room is
\* the first non-empty of the room's names 'en' and 'zh-tw', else 'Room<id>';
\* the track is the first non-empty of the track's names 'zh-tw' and 'en', else
\* 'General', also without a track id or with one the table does not have.
C10_RoomAndTrackNonEmpty ==
    (nm_pc = "returned" /\ nm_result # <<>>) =>
        LET room_id == nm_submission.slots[1].room
            track_id == nm_submission.track
            room_names == IF room_id \in DOMAIN NormRooms
                          THEN SelectSeq(<<NormRooms[room_id].en, NormRooms[room_id].zhtw>>,
                                         LAMBDA n : n # <<>>)
                          ELSE <<>>
            track_names == IF track_id # 0 /\ track_id \in DOMAIN NormTracks
                           THEN SelectSeq(<<NormTracks[track_id].zhtw, NormTracks[track_id].en>>,
                                          LAMBDA n : n # <<>>)
                           ELSE <<>>
        IN  /\ Len(nm_result[1].room) > 0
            /\ Len(nm_result[1].track) > 0
            /\ nm_result[1].room = IF room_names # <<>> THEN room_names[1]
                                   ELSE <<"R","o","o","m">> \o Digits(room_id)
            /\ nm_result[1].track = IF track_names # <<>> THEN track_names[1]
                                    ELSE <<"G","e","n","e","r","a","l">>

\* Witness of C10: a session of room 4 and track 4, neither in its table, has
\* the room 'Room4' and the track 'General'.
C10_Witness ==
    /\ nm_pc = "returned"
    /\ nm_result # <<>>
    /\ nm_submission.slots[1].room = 4
    /\ nm_submission.track = 4
    /\ nm_result[1].room = <<"R","o","o","m","4">>
    /\ nm_result[1].track = <<"G","e","n","e","r","a","l">>

(***************************************************************************)
(* Properties of main and fetch_paginated (specification SpecMain).         *)
(***************************************************************************)
\* A request the API has received has failed.
FetchFailed == \E i \in 1..Len(mn_requests) : ~ApiResponse(mn_api, mn_requests[i].url).ok

\* The aggregate of everything the API lists, all pages of all endpoints.
CompleteAggregate == run([e \in 1..Len(Endpoints) |-> ApiItems(Endpoints[e])])

\* C11: once a fetch has failed, main has returned 1 and no output file is
\* written; a file that is written holds the aggregate of all the pages of
\* all four endpoints, and main returns 0 only when no fetch failed.
C11_NoOutputOnFetchFailure ==
    /\ FetchFailed =>
          /\ mn_pc = "returned"
          /\ mn_exit = <<1>>
          /\ mn_files = [json |-> <<>>, go |-> <<>>]
    /\ \A file \in DOMAIN mn_files :
          mn_files[file] # <<>> => ~FetchFailed /\ mn_files[file] = <<CompleteAggregate>>
    /\ mn_exit = <<0>> => ~FetchFailed

\* Both outputs are asked for, and the second page of the submissions fails
\* after the first was fetched: main has returned 1 and written nothing.
C11_Witness ==
    /\ mn_pc = "returned"
    /\ mn_args = [output_json |-> TRUE, output_go |-> TRUE]
    /\ mn_api.fail = <<ApiUrl("submissions", 2)>>
    /\ Len(mn_requests) = 2
    /\ mn_all_results # <<>>
    /\ mn_exit = <<1>>
    /\ mn_files = [json |-> <<>>, go |-> <<>>]

\* A label -> constant map and a constant -> label map are inverse to each
\* other.
InverseMaps(label_to_constant, constant_to_label) ==
    /\ \A label \in DOMAIN label_to_constant :
          /\ label_to_constant[label] \in DOMAIN constant_to_label
          /\ constant_to_label[label_to_constant[label]] = label
    /\ \A constant \in DOMAIN constant_to_label :
          /\ constant_to_label[constant] \in DOMAIN label_to_constant
          /\ label_to_constant[constant_to_label[constant]] = constant

\* The labels a keyword classifier can give: those of its rules and the two
\* defaults.
LabelsOf(rules) == {rules[i].tag : i \in 1..Len(rules)} \cup {TagKeynote, TagSystem}

\* No tag of the list is written as a quoted literal by a Go writer using the
\* map.
NoRawLiteral(tag_map, tags) ==
    \A i \in 1..Len(tags) :
        /\ tags[i] \in DOMAIN tag_map
        /\ TagConstantsOf(tag_map, tags)[i] = tag_map[tags[i]]

\* C12: every label the classifiers and the loader can give is a key of the
\* label -> constant maps of both Go writers, the loader's constant -> label
\* map is the inverse of those maps, and every identifier generate_tags gives
\* is 'Tag' + a key of TAG_MAPPING, declared in the const block of
\* generate_go_file; so no tag of the session at hand is written as a raw
\* literal.
C12_TagMapsConsistentAndTotal ==
    /\ LabelsOf(classify_rules) \subseteq DOMAIN fetch_tag_map
    /\ LabelsOf(fallback_rules) \subseteq DOMAIN align_tag_map
    /\ {load_tag_map[c] : c \in DOMAIN load_tag_map} \subseteq DOMAIN align_tag_map
    /\ InverseMaps(align_tag_map, load_tag_map)
    /\ InverseMaps(fetch_tag_map, load_tag_map)
    /\ \A i \in 1..Len(generate_rules) :
          \E key \in DOMAIN TAG_MAPPING :
              /\ generate_rules[i].tag = "Tag" \o key
              /\ generate_rules[i].tag \in DOMAIN generate_const_block
              /\ generate_const_block[generate_rules[i].tag] = TAG_MAPPING[key]
    /\ "classify" \in tg_done => NoRawLiteral(fetch_tag_map, tg_tags.classify)
    /\ "align" \in tg_done => NoRawLiteral(align_tag_map, tg_tags.align)
    /\ "generate" \in tg_done =>
          \A i \in 1..Len(tg_tags.generate) :
              \E key \in DOMAIN TAG_MAPPING :
                  /\ tg_tags.generate[i] = "Tag" \o key
                  /\ tg_tags.generate[i] \in DOMAIN generate_const_block

\* A session tagged by the three paths: four labels by the keyword rules of
\* process_session, the loader's labels by the alignment, two identifiers by
\* generate_tags.
C12_Witness ==
    /\ tg_done = TagPaths
    /\ tg_session.code = "JPADKC"
    /\ tg_tags.align = <<TagVehicle, TagHardware>>
    /\ tg_tags.classify = <<TagAI, TagLanguages, TagEducation, TagSocial>>
    /\ Len(tg_tags.generate) = 2

\* The rules of generate_tags that fire on the session being tagged: a keyword
\* of the rule's track, title or abstract list is in the lowercased field.
GenerateFiring ==
    {i \in 1..Len(generate_rules) :
        \/ \E j \in 1..Len(generate_rules[i].track) :
              IsSubstring(generate_rules[i].track[j], Lower(tg_session.track))
        \/ \E j \in 1..Len(generate_rules[i].title) :
              IsSubstring(generate_rules[i].title[j], Lower(tg_session.title))
        \/ \E j \in 1..Len(generate_rules[i].abstract) :
              IsSubstring(generate_rules[i].abstract[j], Lower(tg_session.abstract))}

\* The p-th smallest number of a set of numbers.
Nth(set, p) == CHOOSE i \in set : Cardinality({j \in set : j < i}) = p - 1

\* C13: generate_tags gives at most 2 tags, those of the first two firing
\* rules in the order of the rules (all of them when fewer fire, the default
\* alone when none does); classify_session_tags and generate_fallback_tags
\* give one tag per firing rule, however many fire.
C13_TagCap ==
    /\ "generate" \in tg_done =>
          LET result == tg_tags.generate
              fired == Cardinality(GenerateFiring)
          IN  /\ Len(result) <= 2
              /\ Len(result) = IF fired = 0 THEN 1 ELSE IF fired < 2 THEN fired ELSE 2
              /\ fired = 0 => result = <<"TagSystem">>
              /\ fired > 0 =>
                    \A p \in 1..Len(result) :
                        result[p] = generate_rules[Nth(GenerateFiring, p)].tag
    /\ "classify" \in tg_done =>
          LET fired == Cardinality(FiringRules(classify_rules, TagText))
          IN  fired > 0 => Len(tg_tags.classify) = fired
    /\ ("align" \in tg_done /\ TagUsesFallback) =>
          LET fired == Cardinality(FiringRules(fallback_rules, TagText))
          IN  fired > 0 => Len(tg_tags.align) = fired

\* A session on which more than two rules fire in each path: generate_tags
\* keeps two tags, classify_session_tags and generate_fallback_tags keep all.
C13_Witness ==
    /\ tg_done = TagPaths
    /\ TagUsesFallback
    /\ Cardinality(GenerateFiring) > 2
    /\ Len(tg_tags.generate) = 2
    /\ Len(tg_tags.classify) > 2
    /\ Len(tg_tags.align) > 2

\* C14: the speakers of the session are as many as the submission's speaker
\* codes and in their order: the name the table has for the code, or the code
\* itself when the table has no such code (or no name for it).
C14_SpeakersKeptInOrder ==
    (nm_pc = "returned" /\ nm_result # <<>>) =>
        LET codes == nm_submission.speakers
            names == nm_result[1].speakers
        IN  /\ Len(names) = Len(codes)
            /\ \A i \in 1..Len(codes) :
                  names[i] = IF codes[i] \in DOMAIN NormSpeakers /\ NormSpeakers[codes[i]] # <<>>
                             THEN NormSpeakers[codes[i]][1]
                             ELSE codes[i]

\* A submission with a code that is not in the table between two known ones.
C14_Witness ==
    /\ nm_pc = "returned"
    /\ nm_result # <<>>
    /\ nm_submission.speakers = <<"SPK001", "SPK999", "SPK001">>
    /\ nm_result[1].speakers = <<"Alice", "SPK999", "Alice">>

\* C15: an abstract of at most 200 characters is emitted as it is (a missing
\* one as the empty string); a longer one as its first 200 characters and
\* '...'; the emitted abstract has at most 203 characters.
C15_AbstractTruncation ==
    (nm_pc = "returned" /\ nm_result # <<>>) =>
        LET abstract == nm_submission.abstract
            emitted == nm_result[1].abstract
        IN  /\ Len(abstract) <= 200 => emitted = abstract
            /\ Len(abstract) > 200 =>
                  /\ Len(emitted) = 203
                  /\ \A i \in 1..200 : emitted[i] = abstract[i]
                  /\ \A i \in 201..203 : emitted[i] = "."
            /\ Len(emitted) <= 203

\* An abstract of 201 characters, emitted in 203.
C15_Witness ==
    /\ nm_pc = "returned"
    /\ nm_result # <<>>
    /\ Len(nm_submission.abstract) = 201
    /\ Len(nm_result[1].abstract) = 203
    /\ nm_result[1].abstract[203] = "."

\* The instant a timestamp denotes, in minutes of UTC from the start of the
\* month.
Instant(ts) ==
    (ts.day * 1440 + ts.hour * 60 + ts.minute) - (IF ts.tz = "Z" THEN 0 ELSE UtcOffset[ts.tz])

\* C18: the session of a slot whose end instant is not before its start
\* instant has start <= end, as HH:MM strings.
C18_StartNotAfterEnd ==
    (/\ nm_pc = "returned"
     /\ nm_result # <<>>
     /\ Instant(nm_submission.slots[1].end[1]) >= Instant(nm_submission.slots[1].start[1])) =>
        ~StrLess(nm_result[1].end, nm_result[1].start)

\* The requests an endpoint has received, in order.
RequestsTo(endpoint) == SelectSeq(mn_requests, LAMBDA r : r.url.endpoint = endpoint)

\* The 'results' of the pages requested from an endpoint, one after the other.
VisitedResults(endpoint) ==
    LET requests == RequestsTo(endpoint)
    IN  ConcatAll([i \in 1..Len(requests) |-> ApiResponse(mn_api, requests[i].url).results])

\* The requests of each fetch start at the endpoint's URL and follow the
\* 'next' link of the response before; the fetches come one after the other.
RequestsFollowNext ==
    /\ \A i \in 1..Len(mn_requests) :
          \/ /\ mn_requests[i].url = EndpointUrl(mn_requests[i].url.endpoint)
             /\ \/ i = 1
                \/ /\ mn_requests[i - 1].url.endpoint # mn_requests[i].url.endpoint
                   /\ ApiResponse(mn_api, mn_requests[i - 1].url).next = <<>>
          \/ /\ i > 1
             /\ ApiResponse(mn_api, mn_requests[i - 1].url).next = <<mn_requests[i].url>>
    /\ \A e \in 1..Len(Endpoints) :
          \A i \in 1..Len(RequestsTo(Endpoints[e])) : RequestsTo(Endpoints[e])[i].url.page = i

\* The query parameters go with the first request of a fetch, and with no
\* other.
ParamsWithFirstRequestOnly ==
    \A i \in 1..Len(mn_requests) :
        mn_requests[i].params =
            IF mn_requests[i].url = EndpointUrl(mn_requests[i].url.endpoint)
            THEN EndpointParams(mn_requests[i].url.endpoint)
            ELSE <<>>

\* A fetch that has returned has requested every page of its chain, down to
\* the response without 'next', and has returned their results in page order.
ReturnsAllPages ==
    \A e \in 1..Len(mn_fetched) :
        LET requests == RequestsTo(Endpoints[e])
        IN  /\ Len(requests) = mn_api.pages[Endpoints[e]]
            /\ ApiResponse(mn_api, requests[Len(requests)].url).next = <<>>
            /\ mn_fetched[e] = VisitedResults(Endpoints[e])
            /\ mn_fetched[e] = ApiItems(Endpoints[e])

\* A failed request ends the fetch: nothing is returned for its endpoint, and
\* no further request is sent.
FailedRequestAborts ==
    \A i \in 1..Len(mn_requests) :
        ~ApiResponse(mn_api, mn_requests[i].url).ok =>
            /\ i = Len(mn_requests)
            /\ mn_pc = "returned"
            /\ \A e \in 1..Len(mn_fetched) : Endpoints[e] # mn_requests[i].url.endpoint

\* C19: fetch_paginated requests the pages one after another along the 'next'
\* links from the endpoint's URL, sends the query parameters with the first
\* request only, stops at the response without 'next' and returns the results
\* of all the pages in page order; a failed request ends it with nothing
\* returned; and every call of it ends.
C19_FetchesAllPages ==
    /\ [](RequestsFollowNext /\ ParamsWithFirstRequestOnly /\ ReturnsAllPages /\ FailedRequestAborts)
    /\ (mn_pc = "fetch") ~> (mn_pc \in {"run", "returned"})

\* The submissions were fetched in two pages, the parameters going with the
\* first request only, and the speakers, without parameters, as well.
C19_Witness ==
    /\ Len(mn_fetched) >= 2
    /\ mn_api.pages["submissions"] = 2
    /\ mn_api.pages["speakers"] = 2
    /\ mn_requests[1] = [url |-> ApiUrl("submissions", 1), params |-> <<SubmissionParams>>]
    /\ mn_requests[2] = [url |-> ApiUrl("submissions", 2), params |-> <<>>]
    /\ mn_requests[4] = [url |-> ApiUrl("speakers", 2), params |-> <<>>]
    /\ Len(mn_fetched[1]) = 3

(***************************************************************************)
(* Properties of the statistics of generate_aligned_go_data (Spec).         *)
(***************************************************************************)
\* The codes of the sessions emitted so far that have no existing tags, in
\* the order of emission.
MissingSoFar ==
    LET emitted == [k \in 1..Len(go_entries) |-> go_entries[k].Code]
    IN  SelectSeq(emitted, LAMBDA code : code \notin DOMAIN existing_tags)

FoundPayload(content) ==
    IF SearchPayload(content) # <<>> THEN SearchPayload(content)
    ELSE SearchAssignedPayload(content)

\* What json.loads gives for the payload after the first pass, and after
\* both passes.
AfterFirstPass(payload) == json_loads(NormalizeEscapes(payload))

AfterBothPasses(payload) == json_loads(StripBackslashes(NormalizeEscapes(payload)))

\* The bundle is one the claim is about: it has no payload, or its payload
\* parses after neither pass.
ExtractionFails(content) ==
    \/ FoundPayload(content) = <<>>
    \/ /\ AfterFirstPass(FoundPayload(content)[1]).status # "ok"
       /\ AfterBothPasses(FoundPayload(content)[1]).status # "ok"

\* C16: fetch_sessions_from_js never raises; when the bundle has no
\* JSON.parse(`[...]`) payload, or the payload parses after neither of the
\* two passes, it returns None and has reported the failure; and the data it
\* returns is what json.loads gave for the payload after the first pass or
\* after both.
C16_FailureHandling ==
    /\ js_pc # "raised"
    /\ (js_pc = "returned" /\ ExtractionFails(js_content))
           => (js_result = <<>> /\ js_reports # <<>>)
    /\ js_result # <<>>
           => /\ FoundPayload(js_content) # <<>>
              /\ \/ /\ AfterFirstPass(FoundPayload(js_content)[1]).status = "ok"
                    /\ js_result[1] = AfterFirstPass(FoundPayload(js_content)[1]).value
                 \/ /\ AfterBothPasses(FoundPayload(js_content)[1]).status = "ok"
                    /\ js_result[1] = AfterBothPasses(FoundPayload(js_content)[1]).value

(***************************************************************************)
(* C17: idempotent serialization (specification SpecWrite).                *)
(***************************************************************************)
\* The documents written of the aggregate are the same text, and so is the
\* document written of what json.load gives for one.
JsonWriterIdempotent ==
    /\ \A i, j \in 1..Len(wr_json_files) : wr_json_files[i] = wr_json_files[j]
    /\ \A i \in 1..Len(wr_json_files) : json_loads(wr_json_files[i]).status = "ok"
    /\ wr_loaded # <<>> => json_dumps(wr_loaded[1], 0) = wr_json_files[1]

\* The Go files written of the aggregate are the same text.
GoWritesIdentical ==
    \A i, j \in 1..Len(wr_go_files) : wr_go_files[i] = wr_go_files[j]

\* A Go file written of the aggregate compiles, and generate_go_data gives
\* the same text for the map it denotes, whenever it runs.
GoRoundTrip ==
    \A i \in 1..Len(wr_go_files) :
        /\ ReadGoFile(wr_go_files[i]) # <<>>
        /\ \A now \in wr_clock..MaxSeconds :
               generate_go_data(ReadGoFile(wr_go_files[i])[1], now) = wr_go_files[i]

\* C17: for the JSON writer of main and for the Go writer generate_go_data,
\* writing the same aggregate twice gives byte-identical output, and reading
\* the output back and writing what was read gives byte-identical output.
C17_IdempotentSerialization ==
    /\ JsonWriterIdempotent
    /\ GoWritesIdentical
    /\ GoRoundTrip

(***************************************************************************)
(* C21: the order the Go writers emit in (specification SpecEmit).         *)
(***************************************************************************)
\* The entries are under days in ascending string order, and within a day
\* under rooms in ascending string order.
KeysAscending(entries) ==
    \A k, l \in 1..Len(entries) :
        k < l =>
            /\ ~StrLess(entries[l].day_key, entries[k].day_key)
            /\ entries[k].day_key = entries[l].day_key
                   => ~StrLess(entries[l].room_key, entries[k].room_key)

\* The entries written under a day and a room, in the order of the file.
RECURSIVE EntriesUnder(_, _, _)
EntriesUnder(entries, day, room) ==
    IF entries = <<>> THEN <<>>
    ELSE IF Head(entries).day_key = day /\ Head(entries).room_key = room
         THEN <<Head(entries)>> \o EntriesUnder(Tail(entries), day, room)
    ELSE EntriesUnder(Tail(entries), day, room)

\* The entry is the one of the session: its code, start and title (the title
\* escaped by neither writer when it has no special character).  The code is
\* held as a text in the entries of generate_go_data.
EntryOf(entry, session, as_text) ==
    /\ entry.Code = (IF as_text THEN <<session.code>> ELSE session.code)
    /\ entry.Start = session.start
    /\ entry.Title = session.title

\* Every entry is under a day and a room of the aggregate, and the entries
\* under a room are those of the room's list, one for one in its order.
ListsAsGiven(entries, data, as_text) ==
    /\ \A k \in 1..Len(entries) :
           /\ entries[k].day_key \in DOMAIN data
           /\ entries[k].room_key \in DOMAIN data[entries[k].day_key]
    /\ \A day \in DOMAIN data :
           \A room \in DOMAIN data[day] :
               LET written == EntriesUnder(entries, day, room)
               IN  /\ Len(written) = Len(data[day][room])
                   /\ \A i \in 1..Len(written) : EntryOf(written[i], data[day][room][i], as_text)

\* What both writers have emitted so far is in order, and what a writer that
\* has returned emitted holds every list as given.
EmittedInOrder ==
    /\ KeysAscending(go_entries)
    /\ pc = "done" => ListsAsGiven(go_entries, sessions_by_day_room, FALSE)
    /\ \A f \in 1..Len(wr_go_files) :
           /\ KeysAscending(wr_go_files[f].entries)
           /\ ListsAsGiven(wr_go_files[f].entries, wr_data, TRUE)

\* No step of a writer changes the aggregate it was given.
AggregateKept ==
    /\ sessions_by_day_room' = sessions_by_day_room
    /\ wr_data' = wr_data

\* C21: generate_go_data and generate_aligned_go_data emit the days in
\* ascending string order, the rooms of a day in ascending string order, and
\* the sessions of a room in the order of its list, every session exactly
\* once, and leave the aggregate as it was.
C21_EmissionOrder == []EmittedInOrder /\ [][AggregateKept]_vars

\* Witness of C21: both writers have returned on an aggregate of the five
\* sessions whose room RB105 of Aug.9 lists the 10:00 session before the
\* 09:00 one; "Aug.10" was emitted first.
C21_Witness ==
    /\ pc = "done"
    /\ Len(go_entries) = 5
    /\ wr_go_files # <<>>
    /\ Len(wr_go_files[1].entries) = 5
    /\ go_entries[1].day_key = <<"A","u","g",".","1","0">>
    /\ go_entries[5].day_key = <<"A","u","g",".","9">>
    /\ wr_go_files[1].entries[5].day_key = <<"A","u","g",".","9">>
    /\ \E room \in DOMAIN sessions_by_day_room[<<"A","u","g",".","9">>] :
           /\ Len(sessions_by_day_room[<<"A","u","g",".","9">>][room]) = 2
           /\ sessions_by_day_room[<<"A","u","g",".","9">>][room][1].code = "JPADKC"
           /\ EntriesUnder(go_entries, <<"A","u","g",".","9">>, room)[1].Code = "JPADKC"

(***************************************************************************)
(* C22: the stored tags do not reach the aligned output (specification     *)
(* SpecTwin).                                                              *)
(***************************************************************************)
\* The two aggregates differ in 'tags' fields at most.
DifferInTagsOnly ==
    /\ DOMAIN tw_data = DOMAIN sessions_by_day_room
    /\ \A d \in DOMAIN tw_data :
           /\ DOMAIN tw_data[d] = DOMAIN sessions_by_day_room[d]
           /\ \A r \in DOMAIN tw_data[d] :
                  /\ Len(tw_data[d][r]) = Len(sessions_by_day_room[d][r])
                  /\ \A k \in 1..Len(tw_data[d][r]) :
                         [tw_data[d][r][k] EXCEPT !.tags = <<>>]
                             = [sessions_by_day_room[d][r][k] EXCEPT !.tags = <<>>]

\* The aggregates differ, in the tags of a session that has no existing tags.
FallbackSessionRetagged ==
    \E d \in DOMAIN tw_data :
        \E r \in DOMAIN tw_data[d] :
            \E k \in 1..Len(tw_data[d][r]) :
                /\ tw_data[d][r][k].tags # sessions_by_day_room[d][r][k].tags
                /\ tw_data[d][r][k].code \notin DOMAIN tw_existing_tags

\* C22: two runs of generate_aligned_go_data on aggregates that differ only
\* in the sessions' 'tags' fields write the same entries, tags included, and
\* return the same statistics; while they run, what each has written and
\* counted after as many sessions is the same.
C22_StoredTagsIgnored ==
    DifferInTagsOnly =>
        /\ \A k \in 1..Len(go_entries) : k <= Len(tw_entries) => go_entries[k] = tw_entries[k]
        /\ (pc \in {"align", "done"} /\ tw_pc \in {"align", "done"}
              /\ Len(go_entries) = Len(tw_entries)) => stats = tw_stats
        /\ (pc = "done" /\ tw_pc = "done") => go_entries = tw_entries

\* Witness of C22: both runs have returned, on aggregates of at least four
\* sessions that differ in the tags of a session tagged by the fallback
\* classifier, which were counted as newly generated.
C22_Witness ==
    /\ pc = "done"
    /\ tw_pc = "done"
    /\ DifferInTagsOnly
    /\ FallbackSessionRetagged
    /\ Len(tw_entries) >= 4
    /\ tw_stats.new_tags_generated >= 2
    /\ tw_stats.existing_tags_used >= 1

====
